---- MODULE Spec2Model ----
(***************************************************************************)
(* A model of the citation checker: the verification client               *)
(* (verify_citation, _suggest_correction), the score aggregator            *)
(* (compute_ai_score and its detectors), the human-error reclassifier      *)
(* (compute_human_error_adjustment, displayHumanError) and the Flask       *)
(* server (upload, verify, download) that runs them on stored jobs.        *)
(*                                                                         *)
(* Three specifications share the module:                                  *)
(*   SpecVerify  one Citation object, verified by verify_citation against  *)
(*               every shape of provider response;                         *)
(*   SpecScore   compute_ai_score, compute_human_error_adjustment and the  *)
(*               page's displayHumanError on enumerated inputs;            *)
(*   Spec        the server: jobs, concurrent /verify streams, /download.  *)
(***************************************************************************)
EXTENDS Integers, Sequences, FiniteSets, TLC

VARIABLES
  vcite,    \* SpecVerify: the Citation object given to verify_citation
  vpc,      \* SpecVerify: "call" | "step3" | "searching" | "returned" | "raised"
  vresp,    \* SpecVerify: the lookup response of the current call
  vsresp,   \* SpecVerify: the search response of the current call
  vlog,     \* SpecVerify: provider requests and sleeps of the current call
  vstart,   \* SpecVerify: the citation's status when the current call began
  vcalls,   \* SpecVerify: number of verify_citation calls on the object
  stext,    \* SpecScore: the document text, as the detectors see it
  scitations, \* SpecScore: the citations argument, None or a list
  squotes,  \* SpecScore: the quotes given to compute_human_error_adjustment
  sflags,   \* SpecScore: pro_se_override, allow_other_state, allow_federal
  sscore,   \* SpecScore: what compute_ai_score returned
  shuman,   \* SpecScore: what compute_human_error_adjustment returned
  sshown,   \* SpecScore: what displayHumanError put on the page
  spc,      \* SpecScore: "start" | "scored" | "analysed" | "shown" | "done"
  jobs,     \* Spec: the keys of the server's jobs dict
  store,    \* Spec: the job object made for each job id
  streams,  \* Spec: each /verify response stream: where its generator stands
  calls,    \* Spec: verify_citation calls made so far on each citation of a job
  qcalls,   \* Spec: verify_quote calls made so far on each quote of a job
  etext,    \* SpecExtract: the document text, as its citation spans and quotes
  ecites,   \* SpecExtract: the Citation objects of the first extract_citations
  efirst,   \* SpecExtract: the list the latest extract_citations returned, as returned
  equotes,  \* SpecExtract: the quotes extract_quotes has appended so far
  elast,    \* SpecExtract: last_cite_index
  ek,       \* SpecExtract: position in the text of the quote loop
  epc       \* SpecExtract: "start" | "cited" | "quoting" | "done"

vvars == <<vcite, vpc, vresp, vsresp, vlog, vstart, vcalls>>

svars == <<stext, scitations, squotes, sflags, sscore, shuman, sshown, spc>>

jvars == <<jobs, store, streams, calls, qcalls>>

evars == <<etext, ecites, efirst, equotes, elast, ek, epc>>

vars == <<vvars, svars, jvars, evars>>

(***************************************************************************)
(* Bounds of the model.                                                    *)
(***************************************************************************)
MaxEntries == 2      \* longest lookup result list
MaxVerifyCalls == 2  \* verify_citation calls on one Citation object
MaxCites == 2        \* longest enumerated citation list given to the scorer
MaxQuotes == 3       \* longest quote list given to the reclassifier
MaxShare == 5        \* longest citation list built for the out-of-jurisdiction share

(***************************************************************************)
(* Helpers.                                                                *)
(***************************************************************************)
SeqsUpTo(S, n) == UNION {[1..k -> S] : k \in 0..n}

Min2(a, b) == IF a <= b THEN a ELSE b

Max2(a, b) == IF a >= b THEN a ELSE b

RECURSIVE SumSeq(_)
SumSeq(s) == IF s = <<>> THEN 0 ELSE Head(s) + SumSeq(Tail(s))

(***************************************************************************)
(* Names.  A name string is a sequence of whitespace-separated tokens.     *)
(* normalize() lower-cases, turns punctuation into spaces, splits, removes *)
(* the stop words and the words of length <= 1.                            *)
(***************************************************************************)
TokenWords(tok) ==
  CASE tok = "Smith"  -> {"smith"}
    [] tok = "SMITH"  -> {"smith"}
    [] tok = "Jones"  -> {"jones"}
    [] tok = "Jones," -> {"jones"}
    [] tok = "Acme"   -> {"acme"}
    [] tok = "Corp."  -> {"corp"}
    [] tok = "Doe"    -> {"doe"}
    [] tok = "Roe"    -> {"roe"}
    [] tok = "O'Hara" -> {"o", "hara"}
    [] tok = "X"      -> {"x"}
    [] tok = "v."     -> {"v"}
    [] tok = "State"  -> {"state"}
    [] tok = "In"     -> {"in"}
    [] tok = "re"     -> {"re"}
    [] OTHER          -> {tok}

stopwords ==
  {"v", "vs", "the", "of", "in", "re", "ex", "parte", "et", "al",
   "a", "an", "and", "for", "on", "by", "no", "inc", "corp",
   "co", "ltd", "llc", "city", "state", "united", "states",
   "county", "board", "dept", "department"}

normalize(name) ==
  LET split == UNION {TokenWords(name[i]) : i \in DOMAIN name}
      words == split \ stopwords
  IN  {w \in words : Len(w) > 1}

\* the comparison by the share of the cited words alone
_names_match_cited_only(cited_parties, db_case_name) ==
  LET cited_words == normalize(cited_parties)
      db_words == normalize(db_case_name)
      overlap == cited_words \cap db_words
  IN  IF cited_words = {} \/ db_words = {}
      THEN TRUE
      ELSE 5 * Cardinality(overlap) >= 2 * Cardinality(cited_words)

_names_match(cited_parties, db_case_name) ==
  LET cited_words == normalize(cited_parties)
      db_words == normalize(db_case_name)
      overlap == cited_words \cap db_words
  IN  IF cited_words = {} \/ db_words = {}
      THEN TRUE
      ELSE \/ 5 * Cardinality(overlap) >= 2 * Cardinality(cited_words)
           \/ 5 * Cardinality(overlap) >= 2 * Cardinality(db_words)

RECURSIVE StrLen(_)
\* len() of the string a token sequence stands for
StrLen(name) ==
  IF name = <<>> THEN 0
  ELSE IF Len(name) = 1 THEN Len(name[1])
  ELSE Len(Head(name)) + 1 + StrLen(Tail(name))

(***************************************************************************)
(* Citation strings.  Volumes and pages are digit strings (sequences of    *)
(* digits); a reporter is one of the spellings the grammar accepts.        *)
(***************************************************************************)
_normalize_reporter(r) ==
  CASE r = "So. 2d" -> "so.2d"
    [] r = "So.2d"  -> "so.2d"
    [] r = "So. 3d" -> "so.3d"
    [] r = "F.3d"   -> "f.3d"
    [] r = "P.3d"   -> "p.3d"
    [] OTHER        -> r

Reporters == {"So. 2d", "So.2d", "So. 3d", "F.3d", "P.3d"}

RECURSIVE CurrRow(_, _, _, _, _)
\* the inner loop of _edit_distance: extends curr_row over s2[j..]
CurrRow(prev_row, c1, s2, j, curr_row) ==
  IF j > Len(s2) THEN curr_row
  ELSE LET insertions == prev_row[j + 1] + 1
           deletions == curr_row[j] + 1
           substitutions == prev_row[j] + (IF c1 # s2[j] THEN 1 ELSE 0)
       IN  CurrRow(prev_row, c1, s2, j + 1,
                   Append(curr_row,
                          Min2(insertions, Min2(deletions, substitutions))))

RECURSIVE EditRows(_, _, _, _)
\* the outer loop of _edit_distance: one row per character of s1
EditRows(s1, s2, i, prev_row) ==
  IF i > Len(s1) THEN prev_row[Len(prev_row)]
  ELSE EditRows(s1, s2, i + 1, CurrRow(prev_row, s1[i], s2, 1, <<i>>))

_edit_distance(s1, s2) ==
  LET a == IF Len(s1) < Len(s2) THEN s2 ELSE s1
      b == IF Len(s1) < Len(s2) THEN s1 ELSE s2
  IN  IF Len(b) = 0 THEN Len(a)
      ELSE EditRows(a, b, 1, [k \in 1..(Len(b) + 1) |-> k - 1])

(***************************************************************************)
(* The Citation dataclass.  detail is a sequence of message tags (the      *)
(* base message, then what later steps append); suggestion is the          *)
(* suggested citation string, <<>> for "".                                 *)
(***************************************************************************)
EmptyStr == [kind |-> "string", words |-> <<>>]

Str(words) == [kind |-> "string", words |-> words]

Citation(parties, volume, reporter, page, court) ==
  [parties |-> parties, volume |-> volume, reporter |-> reporter,
   page |-> page, court |-> court,
   status |-> "pending", matched_case_name |-> EmptyStr,
   detail |-> <<>>, suggestion |-> <<>>]

CitationStatuses ==
  {"pending", "verified", "mismatch", "not_found", "unrecognized", "error"}

FinalStatuses == CitationStatuses \ {"pending"}

(***************************************************************************)
(* JSON values as the provider may return them.                            *)
(*   JName     the value of a caseName / case_name key                     *)
(*   Cluster   one element of a clusters list                              *)
(*   Clusters  the value of a clusters key                                 *)
(*   Entry     one element of the lookup result list                       *)
(*   Body      the response body                                           *)
(* "absent" is a missing key; "other" is any value that is not an object.  *)
(***************************************************************************)
AbsentName == [kind |-> "absent", words |-> <<>>]

NullName == [kind |-> "null", words |-> <<>>]

NumberName == [kind |-> "number", words |-> <<>>]

\* Python truthiness of a caseName value
NameTruthy(n) == \/ n.kind = "number"
                 \/ n.kind = "string" /\ n.words # <<>>

\* dict.get(key, ""): a missing key reads as ""
GetName(n) == IF n.kind = "absent" THEN EmptyStr ELSE n

ClusterObj(caseName, case_name) ==
  [kind |-> "object", caseName |-> caseName, case_name |-> case_name]

OtherCluster == [kind |-> "other", caseName |-> AbsentName, case_name |-> AbsentName]

ClustersOf(kind) == [kind |-> kind, first |-> OtherCluster]

ClusterList(first) == [kind |-> "list", first |-> first]

\* Python truthiness of a clusters value (dict.get(key, []) for a missing key)
ClustersTruthy(c) == c.kind \in {"list", "number", "string", "object"}

EntryObj(status, clusters) ==
  [kind |-> "object", status |-> status, clusters |-> clusters]

OtherEntry == [kind |-> "other", status |-> 0, clusters |-> ClustersOf("absent")]

BodyOf(kind) == [kind |-> kind, entries |-> <<>>, clusters |-> ClustersOf("absent")]

BodyList(entries) ==
  [kind |-> "list", entries |-> entries, clusters |-> ClustersOf("absent")]

BodyObject(clusters) == [kind |-> "object", entries |-> <<>>, clusters |-> clusters]

\* `not data`
BodyFalsy(b) ==
  \/ b.kind \in {"null", "false", "zero", "emptystr", "emptyobject"}
  \/ b.kind = "list" /\ b.entries = <<>>

HttpResponse(transport, status_code, body) ==
  [transport |-> transport, status_code |-> status_code, body |-> body]

NoResponse == HttpResponse("none", 0, BodyOf("null"))

(***************************************************************************)
(* verify_citation, step 1 and step 2: the lookup request and the          *)
(* classification of its response.  The result is the mutated citation     *)
(* and how control leaves the step: "return", "raise" (an exception that   *)
(* nothing catches) or "continue" (on to steps 3 and 4).                   *)
(***************************************************************************)
Out(cite, ctl) == [cite |-> cite, ctl |-> ctl]

SetStatus(cite, status, tag) ==
  [cite EXCEPT !.status = status, !.detail = <<tag>>]

RECURSIVE ScanResultsStopAt404(_, _, _)
\* ScanResults with a bug: a 404 entry ends the loop as a 400 entry does
ScanResultsStopAt404(cite, entries, k) ==
  IF k > Len(entries) THEN [cite |-> cite, matched |-> 0, returned |-> FALSE]
  ELSE LET result == entries[k] IN
       IF result.kind # "object" THEN ScanResultsStopAt404(cite, entries, k + 1)
       ELSE IF result.status = 200 \/ result.status = 300
            THEN [cite |-> cite, matched |-> k, returned |-> FALSE]
       ELSE IF result.status = 404
            THEN [cite |-> SetStatus(cite, "not_found", "not in database"),
                  matched |-> 0, returned |-> TRUE]
       ELSE IF result.status = 400
            THEN [cite |-> SetStatus(cite, "unrecognized", "error_message"),
                  matched |-> 0, returned |-> TRUE]
       ELSE ScanResultsStopAt404(cite, entries, k + 1)

RECURSIVE ScanResults(_, _, _)
\* `for result in data`: the mutated citation, the index of matched_result
\* (0 for None) and whether the loop returned from verify_citation
ScanResults(cite, entries, k) ==
  IF k > Len(entries) THEN [cite |-> cite, matched |-> 0, returned |-> FALSE]
  ELSE LET result == entries[k] IN
       IF result.kind # "object" THEN ScanResults(cite, entries, k + 1)
       ELSE IF result.status = 200 \/ result.status = 300
            THEN [cite |-> cite, matched |-> k, returned |-> FALSE]
       ELSE IF result.status = 404
            THEN ScanResults(SetStatus(cite, "not_found", "not in database"),
                             entries, k + 1)
       ELSE IF result.status = 400
            THEN [cite |-> SetStatus(cite, "unrecognized", "error_message"),
                  matched |-> 0, returned |-> TRUE]
       ELSE ScanResults(cite, entries, k + 1)

\* "Extract the matched case name from clusters" and the name comparison
CompareMatched(cite, clusters) ==
  IF ~ClustersTruthy(clusters)
  THEN Out(SetStatus(cite, "verified", "found, no case name"), "continue")
  ELSE IF clusters.kind # "list" \/ clusters.first.kind # "object"
       THEN Out(cite, "raise")   \* clusters[0] or cluster.get fails
  ELSE LET cluster == clusters.first
           case_name == IF NameTruthy(GetName(cluster.caseName))
                        THEN GetName(cluster.caseName)
                        ELSE GetName(cluster.case_name)
           named == [cite EXCEPT !.matched_case_name = case_name]
       IN  IF ~NameTruthy(case_name)
           THEN Out(SetStatus(named, "verified", "matches"), "continue")
           ELSE IF case_name.kind # "string"
                THEN Out(named, "raise")   \* name.lower() fails
           ELSE IF ~_names_match(cite.parties, case_name.words)
                THEN Out(SetStatus(named, "mismatch", "name differs"), "continue")
           ELSE Out(SetStatus(named, "verified", "matches"), "continue")

\* step 2 for a body that is truthy
ClassifyData(cite, data) ==
  IF data.kind \in {"number", "true"}
  THEN Out(cite, "raise")   \* `for result in data` on a non-iterable
  ELSE LET scan == IF data.kind = "list"
                   THEN ScanResults(cite, data.entries, 1)
                   ELSE [cite |-> cite, matched |-> 0, returned |-> FALSE]
       IN  IF scan.returned THEN Out(scan.cite, "return")
           ELSE IF scan.matched # 0
                THEN CompareMatched(scan.cite, data.entries[scan.matched].clusters)
           ELSE IF scan.cite.status # "pending" THEN Out(scan.cite, "continue")
           ELSE IF data.kind = "object"
                THEN IF ClustersTruthy(data.clusters)
                     THEN CompareMatched(scan.cite, data.clusters)
                     ELSE Out(SetStatus(scan.cite, "not_found", "no matching clusters"),
                              "continue")
           ELSE Out(SetStatus(scan.cite, "not_found", "no valid match"), "continue")

ClassifyLookup(cite, resp) ==
  IF resp.transport = "exception"
  THEN Out(SetStatus(cite, "error", "request failed"), "return")
  ELSE IF resp.status_code = 429
       THEN Out(SetStatus(cite, "error", "rate limited"), "return")
  ELSE IF resp.body.kind = "invalid"
       THEN Out(SetStatus(cite, "error", "invalid json"), "return")
  ELSE IF BodyFalsy(resp.body)
       THEN Out(SetStatus(cite, "not_found", "no results"), "continue")
  ELSE ClassifyData(cite, resp.body)

\* _suggest_correction called whatever the status
WantsSuggestionAnyStatus(cite) == cite.status # "pending"

\* the conditions of step 3 and step 4: is _suggest_correction called?
WantsSuggestion(cite) ==
  \/ cite.status = "not_found"
  \/ cite.status = "mismatch" /\ NameTruthy(cite.matched_case_name)

(***************************************************************************)
(* Citation strings as text: a sequence of whitespace-separated tokens,    *)
(* each a run of digits or a word.  CITE_STRING_RE.search finds the first  *)
(* digits-reporter-digits triple; \d{1,4} followed by whitespace keeps the *)
(* last four digits of a longer run, \d{1,5} the first five.               *)
(***************************************************************************)
DigitsTok(d) == [t |-> "digits", d |-> d, w |-> ""]

WordTok(w) == [t |-> "word", d |-> <<>>, w |-> w]

VolumeDigits == 4

PageDigits == 5

FirstN(s, n) == SubSeq(s, 1, Min2(n, Len(s)))

LastN(s, n) == SubSeq(s, Max2(1, Len(s) - n + 1), Len(s))

NoMatch == [ok |-> FALSE, vol |-> <<>>, rptr |-> "", page |-> <<>>]

RECURSIVE SearchFrom(_, _)
SearchFrom(toks, i) ==
  IF i + 2 > Len(toks) THEN NoMatch
  ELSE IF /\ toks[i].t = "digits"
          /\ toks[i + 1].t = "word" /\ toks[i + 1].w \in Reporters
          /\ toks[i + 2].t = "digits"
       THEN [ok |-> TRUE,
             vol |-> LastN(toks[i].d, VolumeDigits),
             rptr |-> toks[i + 1].w,
             page |-> FirstN(toks[i + 2].d, PageDigits)]
  ELSE SearchFrom(toks, i + 1)

CITE_STRING_RE(toks) == SearchFrom(toks, 1)

\* f"{vol} {rptr} {page}"
FormatCite(vol, rptr, page) == <<DigitsTok(vol), WordTok(rptr), DigitsTok(page)>>

(***************************************************************************)
(* The search response read by _suggest_correction.                        *)
(*   CiteStr    one element of a result's citation list                    *)
(*   CiteList   the value of a result's citation key                       *)
(*   Result     one element of the results list                            *)
(*   Results    the value of the results key                               *)
(*   SBody      the body: invalid JSON, an object, or any other value      *)
(***************************************************************************)
CiteStr(toks) == [kind |-> "string", toks |-> toks]

OtherCiteStr == [kind |-> "other", toks |-> <<>>]

CiteListOf(kind) == [kind |-> kind, items |-> <<>>]

CiteList(items) == [kind |-> "list", items |-> items]

ResultObj(citation) == [kind |-> "object", citation |-> citation]

OtherResult == [kind |-> "other", citation |-> CiteListOf("absent")]

ResultsOf(kind) == [kind |-> kind, items |-> <<>>]

ResultList(items) == [kind |-> "list", items |-> items]

SBodyOf(kind) == [kind |-> kind, results |-> ResultsOf("absent")]

SBodyObject(results) == [kind |-> "object", results |-> results]

NoSearch == HttpResponse("none", 0, SBodyOf("other"))

TopResults == 10

Best(suggestion, distance) == [suggestion |-> suggestion, distance |-> distance]

\* a candidate at any distance up to 3, the citation itself included
\* the candidate test with the distance allowed up to 6
CloserWithinSix(total_dist, best_distance) ==
  0 < total_dist /\ total_dist <= 6 /\ total_dist < best_distance

CloserOrSame(total_dist, best_distance) ==
  total_dist <= 3 /\ total_dist < best_distance

\* `0 < total_dist <= 3 and total_dist < best_distance`
Closer(total_dist, best_distance) ==
  0 < total_dist /\ total_dist <= 3 /\ total_dist < best_distance

RECURSIVE ScanCiteStrings(_, _, _, _)
\* `for cite_str in cite_strings`: the best candidate so far, or a raise
ScanCiteStrings(cite, items, k, best) ==
  IF k > Len(items) THEN [raised |-> FALSE, best |-> best]
  ELSE IF items[k].kind # "string"
       THEN [raised |-> TRUE, best |-> best]   \* re.search on a non-string
  ELSE LET m == CITE_STRING_RE(items[k].toks) IN
       IF ~m.ok THEN ScanCiteStrings(cite, items, k + 1, best)
       ELSE IF _normalize_reporter(m.rptr) # _normalize_reporter(cite.reporter)
            THEN ScanCiteStrings(cite, items, k + 1, best)
       ELSE LET vol_dist == _edit_distance(cite.volume, m.vol)
                page_dist == _edit_distance(cite.page, m.page)
                total_dist == vol_dist + page_dist
            IN  IF Closer(total_dist, best.distance)
                THEN ScanCiteStrings(cite, items, k + 1,
                                     Best(FormatCite(m.vol, m.rptr, m.page), total_dist))
                ELSE ScanCiteStrings(cite, items, k + 1, best)

RECURSIVE ScanSearchResults(_, _, _, _)
\* `for result in results[:10]`
ScanSearchResults(cite, results, k, best) ==
  IF k > Len(results) THEN [raised |-> FALSE, best |-> best]
  ELSE LET result == results[k] IN
       IF result.kind # "object"
       THEN [raised |-> TRUE, best |-> best]   \* result.get on a non-dict
       ELSE IF result.citation.kind \in {"absent", "null", "emptylist"}
            THEN ScanSearchResults(cite, results, k + 1, best)
       ELSE IF result.citation.kind = "number"
            THEN [raised |-> TRUE, best |-> best]   \* iterating a number
       ELSE IF result.citation.kind = "string"
            THEN ScanSearchResults(cite, results, k + 1, best)  \* single characters
       ELSE LET inner == ScanCiteStrings(cite, result.citation.items, 1, best) IN
            IF inner.raised THEN inner
            ELSE ScanSearchResults(cite, results, k + 1, inner.best)

\* `not citation.parties or len(citation.parties.strip()) < 3`
PartiesTooShort(cite) == cite.parties = <<>> \/ StrLen(cite.parties) < 3

Suggested(ctl, suggestion) == [ctl |-> ctl, suggestion |-> suggestion]

\* _suggest_correction after its request: <<>> stands for None
_suggest_correction(cite, resp) ==
  IF resp.transport = "exception" THEN Suggested("value", <<>>)
  ELSE IF resp.status_code # 200 THEN Suggested("value", <<>>)
  ELSE IF resp.body.kind = "invalid" THEN Suggested("value", <<>>)
  ELSE IF resp.body.kind # "object" THEN Suggested("raise", <<>>)  \* data.get
  ELSE LET results == resp.body.results IN
       IF results.kind \in {"absent", "null", "emptylist"}
       THEN Suggested("value", <<>>)
       ELSE IF results.kind # "list" THEN Suggested("raise", <<>>)
       ELSE LET scan == ScanSearchResults(cite, FirstN(results.items, TopResults),
                                          1, Best(<<>>, 999))
            IN  IF scan.raised THEN Suggested("raise", <<>>)
                ELSE Suggested("value", scan.best.suggestion)

\* steps 3 and 4 once _suggest_correction has returned
ApplySuggestion(cite, suggestion) ==
  IF suggestion = <<>> THEN cite
  ELSE IF cite.status = "not_found"
       THEN [cite EXCEPT !.suggestion = suggestion,
                         !.detail = Append(@, "did you mean")]
  ELSE [cite EXCEPT !.suggestion = suggestion,
                    !.detail = Append(@, "correct citation may be")]

(***************************************************************************)
(* Inputs of SpecVerify: the citations under test and the provider's       *)
(* answers.                                                                *)
(***************************************************************************)
SmithJones == <<"Smith", "v.", "Jones">>

DoeRoe == <<"Doe", "v.", "Roe">>

StateX == <<"State", "v.", "X">>

SmithJonesAcme == <<"Smith", "v.", "Jones", "Acme">>

SmithDoe == <<"Smith", "v.", "Doe">>

SmithDoeRoe == <<"Smith", "v.", "Doe", "Roe">>

D123 == <<1, 2, 3>>

D456 == <<4, 5, 6>>

VCitations ==
  {Citation(SmithJones, D123, "So. 2d", D456, "Fla"),
   Citation(StateX, D123, "So. 2d", D456, "Fla"),
   Citation(SmithJonesAcme, D123, "So. 2d", D456, "Fla")}

JNames ==
  {AbsentName, NullName, NumberName, EmptyStr, Str(SmithJones), Str(DoeRoe),
   Str(SmithDoe), Str(SmithDoeRoe)}

ClusterObjs ==
  {ClusterObj(n, AbsentName) : n \in JNames}
    \cup {ClusterObj(AbsentName, n) : n \in JNames \ {AbsentName}}

ClustersShapes ==
  {ClustersOf(k) : k \in {"absent", "null", "emptylist", "number", "string", "object"}}
    \cup {ClusterList(c) : c \in ClusterObjs \cup {OtherCluster}}

Matching == ClusterList(ClusterObj(Str(SmithJones), AbsentName))

Differing == ClusterList(ClusterObj(Str(DoeRoe), AbsentName))

\* entries of every shape, for the one-entry lists
FullEntries ==
  {OtherEntry}
    \cup {EntryObj(s, ClustersOf("absent")) : s \in {404, 400, 0}}
    \cup {EntryObj(200, c) : c \in ClustersShapes}
    \cup {EntryObj(300, c) : c \in {Matching, Differing, ClustersOf("absent")}}

\* entries of every provider status, for the longer lists
StatusEntries ==
  {EntryObj(404, ClustersOf("absent")), EntryObj(400, ClustersOf("absent")),
   EntryObj(0, ClustersOf("absent")), EntryObj(200, Matching), EntryObj(300, Differing)}

LookupBodies ==
  {BodyOf(k) : k \in {"null", "false", "zero", "emptystr", "emptyobject",
                      "number", "true", "string", "list"}}
    \cup {BodyObject(c) : c \in ClustersShapes}
    \cup {BodyList(<<e>>) : e \in FullEntries}
    \cup {BodyList(es) : es \in SeqsUpTo(StatusEntries, MaxEntries)}

LookupResponses ==
  {HttpResponse("exception", 0, BodyOf("invalid"))}
    \cup {HttpResponse("ok", 429, b) : b \in {BodyOf("invalid"), BodyList(<<EntryObj(200, Matching)>>)}}
    \cup {HttpResponse("ok", sc, BodyOf("invalid")) : sc \in {200, 500}}
    \cup {HttpResponse("ok", 200, b) : b \in LookupBodies}
    \cup {HttpResponse("ok", 500, b) :
            b \in {BodyList(<<EntryObj(404, ClustersOf("absent"))>>),
                   BodyList(<<EntryObj(200, Differing)>>), BodyOf("emptyobject")}}
    \cup {HttpResponse("ok", 403, BodyObject(ClustersOf("absent")))}

ProviderCite(vol, rptr, page) == CiteStr(FormatCite(vol, rptr, page))

CiteStrs ==
  {OtherCiteStr,
   CiteStr(<<WordTok("unreported")>>),
   ProviderCite(D123, "So. 2d", D456),            \* the citation itself
   ProviderCite(<<2, 1, 3>>, "So. 2d", D456),     \* transposed digits
   ProviderCite(<<1, 2, 4>>, "So.2d", D456),      \* one digit, other spelling
   ProviderCite(<<1, 2, 4>>, "So. 3d", D456),     \* another reporter
   ProviderCite(<<9, 8, 7>>, "So. 2d", <<1, 1, 1>>),
   ProviderCite(<<9, 1, 1, 2, 3>>, "So. 2d", <<4, 5, 6, 7, 8, 9>>)}

SearchResultEntries ==
  {OtherResult}
    \cup {ResultObj(CiteListOf(k)) : k \in {"absent", "emptylist", "number", "string"}}
    \cup {ResultObj(CiteList(<<s>>)) : s \in CiteStrs}
    \cup {ResultObj(CiteList(<<ProviderCite(<<2, 1, 3>>, "So. 2d", D456),
                               ProviderCite(<<1, 2, 4>>, "So.2d", D456)>>)),
          ResultObj(CiteList(<<ProviderCite(<<1, 2, 4>>, "So.2d", D456),
                               ProviderCite(<<2, 1, 3>>, "So. 2d", D456)>>))}

MaxResults == 1   \* longest search result list

\* eleven results: ten of a distant citation, then the transposed one
ElevenResults ==
  [k \in 1..(TopResults + 1) |->
     IF k <= TopResults
     THEN ResultObj(CiteList(<<ProviderCite(<<9, 8, 7>>, "So. 2d", <<1, 1, 1>>)>>))
     ELSE ResultObj(CiteList(<<ProviderCite(<<2, 1, 3>>, "So. 2d", D456)>>))]

SearchBodies ==
  {SBodyOf(k) : k \in {"invalid", "other"}}
    \cup {SBodyObject(ResultList(ElevenResults))}
    \cup {SBodyObject(ResultsOf(k)) :
            k \in {"absent", "null", "emptylist", "number", "string", "object"}}
    \cup {SBodyObject(ResultList(rs)) : rs \in SeqsUpTo(SearchResultEntries, MaxResults) \ {<<>>}}

SearchResponses ==
  {HttpResponse("exception", 0, SBodyOf("invalid"))}
    \cup {HttpResponse("ok", 500, SBodyOf("invalid")),
          HttpResponse("ok", 429, SBodyOf("other"))}
    \cup {HttpResponse("ok", 200, b) : b \in SearchBodies}

(***************************************************************************)
(* Each specification leaves the variables of the others at rest.          *)
(***************************************************************************)
NoText == [word_count |-> 0]

NoScore == [total_score |-> 0, auto_flagged |-> FALSE, label |-> "", criteria |-> <<>>]

NoHumanError == [adjustment |-> 0, items |-> <<>>]

NotShown == [shown |-> FALSE, base |-> 0, adjustment |-> 0, adjusted |-> 0, label |-> ""]

ScoreIdle ==
  /\ stext = NoText
  /\ scitations = [is_none |-> TRUE, items |-> <<>>]
  /\ squotes = <<>>
  /\ sflags = [pro_se_override |-> FALSE, allow_other_state |-> FALSE,
               allow_federal |-> FALSE]
  /\ sscore = NoScore
  /\ shuman = NoHumanError
  /\ sshown = NotShown
  /\ spc = "idle"

VerifyIdle ==
  /\ vcite = Citation(<<>>, <<>>, "", <<>>, "")
  /\ vpc = "idle"
  /\ vresp = NoResponse
  /\ vsresp = NoSearch
  /\ vlog = <<>>
  /\ vstart = "pending"
  /\ vcalls = 0

ServerIdle ==
  /\ jobs = {}
  /\ store = <<>>
  /\ streams = <<>>
  /\ calls = <<>>
  /\ qcalls = <<>>

ExtractIdle ==
  /\ etext = <<>>
  /\ ecites = <<>>
  /\ efirst = <<>>
  /\ equotes = <<>>
  /\ elast = 0
  /\ ek = 0
  /\ epc = "idle"

(***************************************************************************)
(* SpecVerify: verify_citation on one Citation object.  VLookup is steps   *)
(* 1 and 2: the lookup request and the classification of its response.     *)
(* VStep3 is the start of steps 3 and 4: the call returns, or sleeps and    *)
(* issues the search request of _suggest_correction.  VSearch is the rest  *)
(* of the call.  VAgain calls verify_citation again on the same object, as *)
(* a second /verify stream of the job does.                                *)
(***************************************************************************)
InitVerify ==
  /\ vcite \in VCitations
  /\ vpc = "call"
  /\ vresp = NoResponse
  /\ vsresp = NoSearch
  /\ vlog = <<>>
  /\ vstart = "pending"
  /\ vcalls = 1
  /\ ScoreIdle
  /\ ServerIdle
  /\ ExtractIdle

VLookup ==
  /\ vpc = "call"
  /\ \E resp \in LookupResponses :
       LET out == ClassifyLookup(vcite, resp)
       IN  /\ vresp' = resp
           /\ vcite' = out.cite
           /\ vpc' = CASE out.ctl = "raise" -> "raised"
                       [] out.ctl = "return" -> "returned"
                       [] OTHER -> "step3"
  /\ vlog' = <<"lookup">>
  /\ UNCHANGED <<vsresp, vstart, vcalls>>
  /\ UNCHANGED <<svars, jvars, evars>>

VStep3 ==
  /\ vpc = "step3"
  /\ IF WantsSuggestion(vcite) /\ ~PartiesTooShort(vcite)
     THEN /\ vpc' = "searching"
          /\ vlog' = vlog \o <<"sleep", "search">>
          /\ vresp' = NoResponse
     ELSE /\ vpc' = "returned"
          /\ UNCHANGED <<vlog, vresp>>
  /\ UNCHANGED <<vcite, vsresp, vstart, vcalls>>
  /\ UNCHANGED <<svars, jvars, evars>>

VSearch ==
  /\ vpc = "searching"
  /\ \E sresp \in SearchResponses :
       LET s == _suggest_correction(vcite, sresp)
       IN  /\ vsresp' = sresp
           /\ vcite' = IF s.ctl = "raise" THEN vcite
                       ELSE ApplySuggestion(vcite, s.suggestion)
           /\ vpc' = IF s.ctl = "raise" THEN "raised" ELSE "returned"
  /\ UNCHANGED <<vresp, vlog, vstart, vcalls>>
  /\ UNCHANGED <<svars, jvars, evars>>

VAgain ==
  /\ vpc \in {"returned", "raised"}
  /\ vcalls < MaxVerifyCalls
  /\ vpc' = "call"
  /\ vresp' = NoResponse
  /\ vsresp' = NoSearch
  /\ vlog' = <<>>
  /\ vstart' = vcite.status
  /\ vcalls' = vcalls + 1
  /\ UNCHANGED vcite
  /\ UNCHANGED <<svars, jvars, evars>>

NextVerify == VLookup \/ VStep3 \/ VSearch \/ VAgain

SpecVerify == InitVerify /\ [][NextVerify]_vars

(***************************************************************************)
(* The document text, as the detectors see it: each field is what one      *)
(* detector counts or measures in the text.                                *)
(*   word_count    len(text.split())                                       *)
(*   malformed     matches of _MALFORMED_CITE_PATTERNS                     *)
(*   pro_se_phrase a _PRO_SE_PATTERNS match                                *)
(*   legalese      latin_count + complex_count                             *)
(*   sentences     the word count of each sentence of _split_sentences     *)
(*   passive       passive_count                                           *)
(*   header        what the court patterns of _detect_jurisdiction capture *)
(*   records       record_count                                            *)
(*   paragraphs    the content-word set of each paragraph over 80 chars    *)
(*   procedural    _PROCEDURAL_PATTERNS that match                         *)
(*   explainer     _EXPLAINER_PHRASES hits                                 *)
(*   buzzwords     buzzwords with no citation within 150 characters        *)
(*   dashes        em-dashes, en-dashes and double hyphens                 *)
(*   hyphens       hyphenated -ly adverbs outside _FALSE_LY_ADVERBS        *)
(***************************************************************************)
Result(points, max) == [points |-> points, max |-> max]

_detect_formatting_issues(text) ==
  LET count == text.malformed
      pts == IF count = 0 THEN 0
             ELSE IF count <= 2 THEN 2
             ELSE IF count <= 4 THEN 3
             ELSE 5
  IN  Result(pts, 5)

_detect_pro_se_legalese(text, pro_se_override) ==
  LET is_pro_se == pro_se_override \/ text.pro_se_phrase
      word_count == text.word_count
      \* legalese_per_1k = (legalese / word_count) * 1000
      pts == IF 1000 * text.legalese < word_count THEN 0
             ELSE IF 1000 * text.legalese < 2 * word_count THEN 4
             ELSE IF 2000 * text.legalese < 7 * word_count THEN 8
             ELSE IF 1000 * text.legalese < 5 * word_count THEN 12
             ELSE 15
  IN  IF ~is_pro_se THEN Result(0, 15)
      ELSE IF word_count < 100 THEN Result(0, 15)
      ELSE Result(pts, 15)

RECURSIVE SumSquares(_)
SumSquares(s) == IF s = <<>> THEN 0 ELSE Head(s) * Head(s) + SumSquares(Tail(s))

_detect_unusual_syntax(text) ==
  LET lengths == text.sentences
      n == Len(lengths)
      total == SumSeq(lengths)
      \* n * (n - 1) * variance, for stdev(lengths)
      spread == n * SumSquares(lengths) - total * total
      \* cv = sd / avg_len: cv < 0.25 and cv < 0.35, squared and cleared
      uniform == IF total > 0 /\ n >= 5
                 THEN IF 16 * n * spread < (n - 1) * total * total THEN 4
                      ELSE IF 400 * n * spread < 49 * (n - 1) * total * total THEN 2
                      ELSE 0
                 ELSE 0
      \* passive_ratio = passive_count / len(sentences)
      passive == IF 5 * text.passive > 3 * n THEN 4
                 ELSE IF 5 * text.passive > 2 * n THEN 2
                 ELSE 0
      long == IF total > 35 * n THEN 2 ELSE 0
  IN  IF n < 5 THEN Result(0, 10)
      ELSE Result(Min2(uniform + passive + long, 10), 10)

_CIRCUIT_STATES(circuit) ==
  CASE circuit = "1" -> {"me", "ma", "nh", "ri", "pr"}
    [] circuit = "2" -> {"ct", "ny", "vt"}
    [] circuit = "3" -> {"de", "nj", "pa", "vi"}
    [] circuit = "4" -> {"md", "nc", "sc", "va", "wv"}
    [] circuit = "5" -> {"la", "ms", "tx"}
    [] circuit = "6" -> {"ky", "mi", "oh", "tn"}
    [] circuit = "7" -> {"il", "in", "wi"}
    [] circuit = "8" -> {"ar", "ia", "mn", "mo", "ne", "nd", "sd"}
    [] circuit = "9" -> {"ak", "az", "ca", "hi", "id", "mt", "nv", "or", "wa", "gu"}
    [] circuit = "10" -> {"co", "ks", "nm", "ok", "ut", "wy"}
    [] circuit = "11" -> {"al", "fl", "ga"}
    [] circuit = "dc" -> {"dc"}
    [] OTHER -> {}

Circuits == {"1", "2", "3", "4", "5", "6", "7", "8", "9", "10", "11", "dc"}

\* _STATE_ABBREV.get(name): "" stands for None
_STATE_ABBREV(name) ==
  CASE name = "alabama" -> "al"
    [] name = "california" -> "ca"
    [] name = "florida" -> "fl"
    [] name = "georgia" -> "ga"
    [] name = "massachusetts" -> "ma"
    [] name = "new york" -> "ny"
    [] OTHER -> ""

\* circuit_map.get(word): "" stands for None
circuit_map(word) ==
  CASE word \in {"second", "2nd", "2d"} -> "2"
    [] word \in {"ninth", "9th"} -> "9"
    [] word \in {"eleventh", "11th"} -> "11"
    [] OTHER -> ""

Jurisdiction(type, circuit, state) == [type |-> type, circuit |-> circuit, state |-> state]

\* a header: the group each court pattern captures, lower-cased ("" when the
\* pattern does not match), and whether the U.S. Supreme Court pattern matches
Header(circuit, district, supreme, appeals, scotus) ==
  [circuit |-> circuit, district |-> district, supreme |-> supreme,
   appeals |-> appeals, scotus |-> scotus]

_detect_jurisdiction(text) ==
  LET h == text.header
      district_circuit ==
        CHOOSE c \in Circuits : _STATE_ABBREV(h.district) \in _CIRCUIT_STATES(c)
  IN  IF h.circuit # "" /\ circuit_map(h.circuit) # ""
      THEN Jurisdiction("federal_circuit", circuit_map(h.circuit), "")
      ELSE IF /\ h.district # "" /\ _STATE_ABBREV(h.district) # ""
              /\ \E c \in Circuits : _STATE_ABBREV(h.district) \in _CIRCUIT_STATES(c)
           THEN Jurisdiction("federal_district", district_circuit,
                             _STATE_ABBREV(h.district))
      ELSE IF h.supreme # "" /\ _STATE_ABBREV(h.supreme) # ""
           THEN Jurisdiction("state", "", _STATE_ABBREV(h.supreme))
      ELSE IF h.appeals # "" /\ _STATE_ABBREV(h.appeals) # ""
           THEN Jurisdiction("state", "", _STATE_ABBREV(h.appeals))
      ELSE IF h.scotus THEN Jurisdiction("scotus", "", "")
      ELSE Jurisdiction("", "", "")

\* what the patterns of _citation_is_out_of_jurisdiction find in a court
\* string: is_federal, and the state of the first _COURT_STATE_MAP
\* abbreviation (in the map's order) that the lower-cased string contains
CourtFacts(federal, state) == [federal |-> federal, state |-> state]

CourtPatterns(court) ==
  CASE court = "Fla" -> CourtFacts(FALSE, "fl")
    [] court = "Fla. 3d DCA" -> CourtFacts(FALSE, "fl")
    [] court = "11th Cir" -> CourtFacts(TRUE, "")
    [] court = "D.C. Cir" -> CourtFacts(TRUE, "")
    [] court = "S.D. Fla" -> CourtFacts(TRUE, "fl")
    [] court = "N.Y" -> CourtFacts(FALSE, "ny")
    [] court = "Ga" -> CourtFacts(FALSE, "ga")
    [] court = "Ala" -> CourtFacts(FALSE, "la")
    [] court = "2d Cir" -> CourtFacts(FALSE, "")
    [] court = "D. Mass" -> CourtFacts(FALSE, "ma")
    [] OTHER -> CourtFacts(FALSE, "")

_citation_is_out_of_jurisdiction(cite_court, jurisdiction, allow_other_state, allow_federal) ==
  LET facts == CourtPatterns(cite_court) IN
  IF cite_court = "" THEN FALSE
  ELSE IF facts.federal THEN ~allow_federal
  ELSE IF facts.state # ""
       THEN IF facts.state = jurisdiction.state THEN FALSE ELSE ~allow_other_state
  ELSE FALSE

\* the criterion with each band including its upper end
_detect_out_of_jurisdiction_inclusive(text, citations, allow_other_state, allow_federal) ==
  LET detected == _detect_jurisdiction(text)
      jurisdiction == IF detected.type = "" THEN Jurisdiction("state", "11", "fl")
                      ELSE detected
      out_count == Cardinality({i \in DOMAIN citations :
                      _citation_is_out_of_jurisdiction(citations[i].court, jurisdiction,
                                                       allow_other_state, allow_federal)})
      total == Len(citations)
      pts == IF 5 * out_count <= total THEN 0
             ELSE IF 5 * out_count <= 2 * total THEN 3
             ELSE IF 5 * out_count <= 3 * total THEN 5
             ELSE IF 5 * out_count <= 4 * total THEN 6
             ELSE 8
  IN  IF allow_other_state /\ allow_federal THEN Result(0, 8)
      ELSE IF citations = <<>> THEN Result(0, 8)
      ELSE Result(pts, 8)

_detect_out_of_jurisdiction(text, citations, allow_other_state, allow_federal) ==
  LET detected == _detect_jurisdiction(text)
      jurisdiction == IF detected.type = "" THEN Jurisdiction("state", "11", "fl")
                      ELSE detected
      out_count == Cardinality({i \in DOMAIN citations :
                      _citation_is_out_of_jurisdiction(citations[i].court, jurisdiction,
                                                       allow_other_state, allow_federal)})
      total == Len(citations)
      \* ratio = out_count / total
      pts == IF 5 * out_count < total THEN 0
             ELSE IF 5 * out_count < 2 * total THEN 3
             ELSE IF 5 * out_count < 3 * total THEN 5
             ELSE IF 5 * out_count < 4 * total THEN 6
             ELSE 8
  IN  IF allow_other_state /\ allow_federal THEN Result(0, 8)
      ELSE IF citations = <<>> THEN Result(0, 8)
      ELSE Result(pts, 8)

_detect_sparse_record_citations(text) ==
  LET word_count == text.word_count
      record_count == text.records
      \* expected = word_count / 300
      pts == IF record_count = 0 /\ word_count > 1000 THEN 4
             ELSE IF 1500 * record_count < word_count THEN 3
             ELSE IF 600 * record_count < word_count THEN 1
             ELSE 0
  IN  IF word_count < 500 THEN Result(0, 4) ELSE Result(pts, 4)

_detect_repetition(text) ==
  LET para_words == text.paragraphs
      n == Len(para_words)
      high_sim_pairs ==
        Cardinality({pair \in (1..n) \X (1..n) :
          /\ pair[1] < pair[2]
          /\ para_words[pair[1]] # {} /\ para_words[pair[2]] # {}
          \* jaccard > 0.5
          /\ 2 * Cardinality(para_words[pair[1]] \cap para_words[pair[2]])
               > Cardinality(para_words[pair[1]] \cup para_words[pair[2]])})
      pts == IF high_sim_pairs = 0 THEN 0
             ELSE IF high_sim_pairs <= 2 THEN 2
             ELSE 4
  IN  IF n < 3 THEN Result(0, 4) ELSE Result(pts, 4)

_detect_missing_procedural_posture(text) ==
  LET matches == text.procedural
      pts == IF matches >= 4 THEN 0
             ELSE IF matches >= 2 THEN 2
             ELSE IF matches >= 1 THEN 3
             ELSE 4
  IN  IF text.word_count < 500 THEN Result(0, 4) ELSE Result(pts, 4)

_detect_explainer_voice(text) ==
  LET count == text.explainer
      pts == IF count = 0 THEN 0
             ELSE IF count <= 2 THEN 2
             ELSE IF count <= 4 THEN 3
             ELSE 5
  IN  Result(pts, 5)

_detect_buzzword_adjectives(text) ==
  LET unsupported == text.buzzwords
      pts == IF unsupported = 0 THEN 0
             ELSE IF unsupported <= 2 THEN 2
             ELSE IF unsupported <= 4 THEN 3
             ELSE 5
  IN  Result(pts, 5)

_detect_excessive_em_dashes(text) ==
  LET total == text.dashes
      pts == IF total <= 4 THEN 0
             ELSE IF total <= 8 THEN 2
             ELSE IF total <= 15 THEN 3
             ELSE 5
  IN  Result(pts, 5)

_detect_unnecessary_hyphens(text) ==
  LET unnecessary_count == text.hyphens
      pts == IF unnecessary_count = 0 THEN 0
             ELSE IF unnecessary_count <= 2 THEN 1
             ELSE IF unnecessary_count <= 5 THEN 3
             ELSE 5
  IN  Result(pts, 5)

(***************************************************************************)
(* compute_ai_score.  The citations argument is None or a list:            *)
(* [is_none, items].  A criterion carries its name, points, max and, for   *)
(* the criterion that has one, its auto_flag (<<>> when it has none).      *)
(***************************************************************************)
Criterion(name, points, max, auto_flag) ==
  [name |-> name, points |-> points, max |-> max, auto_flag |-> auto_flag]

Detected(name, result) == Criterion(name, result.points, result.max, <<>>)

CountStatus(items, status) ==
  Cardinality({i \in DOMAIN items : items[i].status = status})

MismatchPointsFlat(citations) ==
  IF citations.is_none \/ citations.items = <<>> THEN 0
  ELSE IF CountStatus(citations.items, "mismatch") = 0 THEN 0
  ELSE 5

\* criterion 1, mismatched citation names
MismatchPoints(citations) ==
  LET mismatch_count == CountStatus(citations.items, "mismatch") IN
  IF citations.is_none \/ citations.items = <<>> THEN 0
  ELSE IF mismatch_count = 0 THEN 0
  ELSE IF mismatch_count = 1 THEN 5
  ELSE 10

NotFoundCriterionNeverFlags(citations) ==
  LET not_found == CountStatus(citations.items, "not_found") IN
  IF citations.is_none \/ citations.items = <<>>
  THEN [points |-> 0, auto_flagged |-> FALSE]
  ELSE IF not_found = 0 THEN [points |-> 0, auto_flagged |-> FALSE]
  ELSE IF not_found = 1 THEN [points |-> 10, auto_flagged |-> FALSE]
  ELSE [points |-> 20, auto_flagged |-> FALSE]

NotFoundCriterionFlagsMismatch(citations) ==
  LET not_found == CountStatus(citations.items, "not_found")
      flagged == not_found > 0 \/ CountStatus(citations.items, "mismatch") > 0
  IN
  IF citations.is_none \/ citations.items = <<>>
  THEN [points |-> 0, auto_flagged |-> FALSE]
  ELSE IF not_found = 0 THEN [points |-> 0, auto_flagged |-> flagged]
  ELSE IF not_found = 1 THEN [points |-> 10, auto_flagged |-> flagged]
  ELSE [points |-> 20, auto_flagged |-> flagged]

\* criterion 2, non-existent citations: its points and auto_flagged
NotFoundCriterion(citations) ==
  LET not_found == CountStatus(citations.items, "not_found") IN
  IF citations.is_none \/ citations.items = <<>>
  THEN [points |-> 0, auto_flagged |-> FALSE]
  ELSE IF not_found = 0 THEN [points |-> 0, auto_flagged |-> FALSE]
  ELSE IF not_found = 1 THEN [points |-> 10, auto_flagged |-> TRUE]
  ELSE [points |-> 20, auto_flagged |-> TRUE]

ScoreLabelShort(total) ==
  IF total = 0 THEN "Not AI generated"
  ELSE IF total <= 10 THEN "Low chance"
  ELSE IF total <= 30 THEN "Moderate chance of some AI generation"
  ELSE IF total <= 50 THEN "High chance of some AI generation"
  ELSE IF total <= 80 THEN "Moderate chance entire brief was AI generated"
  ELSE "High chance entire brief was AI generated"

ScoreLabel(total) ==
  IF total = 0 THEN "Not AI generated"
  ELSE IF total <= 10 THEN "Low chance of AI generation"
  ELSE IF total <= 30 THEN "Moderate chance of some AI generation"
  ELSE IF total <= 50 THEN "High chance of some AI generation"
  ELSE IF total <= 80 THEN "Moderate chance that entire brief was AI generated"
  ELSE "High chance that entire brief was AI generated"

RECURSIVE SumPoints(_)
SumPoints(criteria) ==
  IF criteria = <<>> THEN 0 ELSE Head(criteria).points + SumPoints(Tail(criteria))

ScoreTotalOfText(criteria) == Min2(SumPoints(Tail(Tail(criteria))), 100)

ScoreTotal(criteria) == Min2(SumPoints(criteria), 100)

compute_ai_score(text, citations, pro_se_override, allow_other_state, allow_federal) ==
  LET c2 == NotFoundCriterion(citations)
      items == IF citations.is_none THEN <<>> ELSE citations.items
      criteria ==
        <<Criterion("Mismatched Citation Names", MismatchPoints(citations), 10, <<>>),
          Criterion("Non-Existent Case Citations", c2.points, 20, <<c2.auto_flagged>>),
          Detected("Improper Citation Formatting", _detect_formatting_issues(text)),
          Detected("Pro Se Litigant Using Complex Legalese",
                   _detect_pro_se_legalese(text, pro_se_override)),
          Detected("Unusual Syntax", _detect_unusual_syntax(text)),
          Detected("Out-of-Jurisdiction Citations",
                   _detect_out_of_jurisdiction(text, items, allow_other_state,
                                               allow_federal)),
          Detected("Sparse Record Citations", _detect_sparse_record_citations(text)),
          Detected("Repetitive Arguments", _detect_repetition(text)),
          Detected("Missing Procedural Posture", _detect_missing_procedural_posture(text)),
          Detected("Overly Helpful Explainer Voice", _detect_explainer_voice(text)),
          Detected("Buzzwordy Legal Adjectives", _detect_buzzword_adjectives(text)),
          Detected("Excessive Em-Dashes", _detect_excessive_em_dashes(text)),
          Detected("Excessive Unnecessary Hyphenation", _detect_unnecessary_hyphens(text))>>
      total == ScoreTotal(criteria)
  IN  [total_score |-> total,
       auto_flagged |-> c2.auto_flagged,
       label |-> ScoreLabel(total),
       criteria |-> criteria]

(***************************************************************************)
(* The human-error reclassifier.  The Quote dataclass: cite_index counts   *)
(* from 0; cite_label and found_cite are citation strings (token           *)
(* sequences, <<>> for ""); found_in and detail are message tags.          *)
(***************************************************************************)
Quote(cite_index, cite_label) ==
  [cite_index |-> cite_index, cite_label |-> cite_label, status |-> "pending",
   found_in |-> "", found_cite |-> <<>>, detail |-> ""]

_citations_are_similar(cite_label, found_cite_str) ==
  LET m_given == CITE_STRING_RE(cite_label)
      m_found == CITE_STRING_RE(found_cite_str)
  IN  IF ~m_given.ok \/ ~m_found.ok THEN FALSE
      ELSE IF _normalize_reporter(m_given.rptr) # _normalize_reporter(m_found.rptr)
           THEN FALSE
      ELSE IF m_given.vol = m_found.vol /\ m_given.page = m_found.page THEN TRUE
      ELSE _edit_distance(m_given.vol, m_found.vol)
             + _edit_distance(m_given.page, m_found.page) <= 3

Item(classification, points) == [classification |-> classification, points |-> points]

\* every mismatch with a suggestion taken for a typing error
CitationItemsAlwaysTypo(cite) ==
  IF cite.status = "not_found" /\ cite.suggestion # <<>>
  THEN <<Item("human_error", -10)>>
  ELSE IF cite.status = "not_found" /\ cite.suggestion = <<>>
       THEN <<Item("ai_indicator", 0)>>
  ELSE IF cite.status = "mismatch" /\ cite.suggestion # <<>>
       THEN <<Item("human_error", -5)>>
  ELSE <<>>

\* the item a citation adds, as a sequence of zero or one items
CitationItems(cite) ==
  IF cite.status = "not_found" /\ cite.suggestion # <<>>
  THEN <<Item("human_error", -10)>>
  ELSE IF cite.status = "not_found" /\ cite.suggestion = <<>>
       THEN <<Item("ai_indicator", 0)>>
  ELSE IF cite.status = "mismatch" /\ cite.suggestion # <<>>
       THEN IF _citations_are_similar(FormatCite(cite.volume, cite.reporter, cite.page),
                                      cite.suggestion)
            THEN <<Item("human_error", -5)>>
            ELSE <<Item("ai_indicator", 3)>>
  ELSE <<>>

\* a quote found elsewhere taken for a typing error whenever no citation
\* was recorded for the place it was found
QuoteItemsLenient(q) ==
  IF q.status = "found_elsewhere"
  THEN IF q.found_cite = <<>> \/ _citations_are_similar(q.cite_label, q.found_cite)
       THEN <<Item("human_error", -5)>>
       ELSE <<Item("ai_indicator", 5)>>
  ELSE IF q.status = "not_found" THEN <<Item("ai_indicator", 5)>>
  ELSE <<>>

\* the item a quote adds
QuoteItems(q) ==
  IF q.status = "found_elsewhere"
  THEN IF q.found_cite # <<>> /\ _citations_are_similar(q.cite_label, q.found_cite)
       THEN <<Item("human_error", -5)>>
       ELSE <<Item("ai_indicator", 5)>>
  ELSE IF q.status = "not_found" THEN <<Item("ai_indicator", 5)>>
  ELSE <<>>

RECURSIVE ItemsOf(_, _)
ItemsOf(list, one) ==
  IF list = <<>> THEN <<>> ELSE one[Head(list)] \o ItemsOf(Tail(list), one)

RECURSIVE SumItemPoints(_)
SumItemPoints(items) ==
  IF items = <<>> THEN 0 ELSE Head(items).points + SumItemPoints(Tail(items))

compute_human_error_adjustment(citations, quotes) ==
  LET items == ItemsOf(citations, [c \in {citations[i] : i \in DOMAIN citations}
                                     |-> CitationItems(c)])
               \o ItemsOf(quotes, [q \in {quotes[i] : i \in DOMAIN quotes}
                                     |-> QuoteItems(q)])
  IN  [adjustment |-> SumItemPoints(items), items |-> items]

\* the page's adjusted score: Math.max(0, Math.min(100, baseScore + adjustment))
AdjustedUnclamped(baseScore, adjustment) == baseScore + adjustment

Adjusted(baseScore, adjustment) == Max2(0, Min2(100, baseScore + adjustment))

displayHumanError(he, baseScore) ==
  LET adjusted == Adjusted(baseScore, he.adjustment) IN
  [shown |-> TRUE, base |-> baseScore, adjustment |-> he.adjustment,
   adjusted |-> adjusted, label |-> ScoreLabel(adjusted)]

(***************************************************************************)
(* verify_quote.  A quote search response is an HttpResponse whose body is *)
(* an SBody; a result of its list carries caseName beside citation.        *)
(***************************************************************************)
QResult(caseName, citation) ==
  [kind |-> "object", caseName |-> caseName, citation |-> citation]

\* REPORTER_JURISDICTION and JURISDICTION_COURTS: "" when there is no filter
_get_jurisdiction_courts(reporter) ==
  IF _normalize_reporter(reporter) \in {"so.2d", "so.3d"}
  THEN "flaapp fla fladistctapp flasupct"
  ELSE ""

QResults(ctl, results) == [ctl |-> ctl, results |-> results]

\* what _search_courtlistener_for_quote returns once its request is
\* answered: ctl "none" is None, "value" is data.get("results", [])
_search_courtlistener_for_quote(resp) ==
  IF resp.transport = "exception" THEN QResults("none", ResultsOf("null"))
  ELSE IF resp.status_code # 200 THEN QResults("none", ResultsOf("null"))
  ELSE IF resp.body.kind = "invalid" THEN QResults("none", ResultsOf("null"))
  ELSE IF resp.body.kind # "object" THEN QResults("raise", ResultsOf("null"))
  ELSE IF resp.body.results.kind = "absent" THEN QResults("value", ResultsOf("emptylist"))
  ELSE QResults("value", resp.body.results)

\* `if juris_results:` and `if broad_results:`
ResultsTruthy(found) ==
  /\ found.ctl = "value"
  /\ \/ found.results.kind \in {"number", "string", "object"}
     \/ found.results.kind = "list" /\ found.results.items # <<>>

Matched(ctl, found, name) == [ctl |-> ctl, found |-> found, name |-> name]

RECURSIVE CitedInStrings(_, _, _)
CitedInStrings(citation, items, k) ==
  IF k > Len(items) THEN [raised |-> FALSE, hit |-> FALSE]
  ELSE IF items[k].kind # "string" THEN [raised |-> TRUE, hit |-> FALSE]
  ELSE LET m == CITE_STRING_RE(items[k].toks) IN
       IF /\ m.ok
          /\ m.vol = citation.volume
          /\ _normalize_reporter(m.rptr) = _normalize_reporter(citation.reporter)
          /\ m.page = citation.page
       THEN [raised |-> FALSE, hit |-> TRUE]
       ELSE CitedInStrings(citation, items, k + 1)

RECURSIVE CitedInResults(_, _, _)
\* `for result in results[:10]`
CitedInResults(citation, results, k) ==
  IF k > Len(results) THEN Matched("value", FALSE, EmptyStr)
  ELSE LET result == results[k] IN
       IF result.kind # "object" THEN Matched("raise", FALSE, EmptyStr)
       ELSE IF result.citation.kind \in {"absent", "emptylist", "string"}
            THEN CitedInResults(citation, results, k + 1)
       ELSE IF result.citation.kind # "list" THEN Matched("raise", FALSE, EmptyStr)
       ELSE LET inner == CitedInStrings(citation, result.citation.items, 1) IN
            IF inner.raised THEN Matched("raise", FALSE, EmptyStr)
            ELSE IF inner.hit
                 THEN Matched("value", TRUE,
                              IF NameTruthy(GetName(result.caseName))
                              THEN GetName(result.caseName) ELSE EmptyStr)
            ELSE CitedInResults(citation, results, k + 1)

_check_results_for_cited_case(results, citation) ==
  IF results.kind # "list" THEN Matched("raise", FALSE, EmptyStr)
  ELSE CitedInResults(citation, FirstN(results.items, TopResults), 1)

\* `if matched_name:`
MatchedTruthy(m) == m.ctl = "value" /\ m.found /\ NameTruthy(m.name)

\* _extract_found_elsewhere: the raw citation string of the first result
_extract_found_elsewhere(results) ==
  LET first_result == results.items[1] IN
  IF first_result.citation.kind = "list" /\ first_result.citation.items # <<>>
  THEN first_result.citation.items[1].toks
  ELSE <<>>

QuoteVerified(quote) ==
  [quote EXCEPT !.status = "verified", !.detail = "verified in"]

QuoteFoundElsewhere(quote, found_in, found_cite, detail) ==
  [quote EXCEPT !.status = "found_elsewhere", !.found_in = found_in,
                !.found_cite = found_cite, !.detail = detail]

QuoteNotFound(quote) ==
  [quote EXCEPT !.status = "not_found", !.detail = "not found in any database"]

\* a Google Scholar answer: None, or the "case name, citation" string
NoScholar == [found |-> FALSE, toks |-> <<>>]

Scholar(toks) == [found |-> TRUE, toks |-> toks]

\* step 2 of verify_quote, once _search_google_scholar has answered
QuoteAfterScholar(quote, scholar_result) ==
  IF scholar_result.found /\ scholar_result.toks # <<>>
  THEN LET m == CITE_STRING_RE(scholar_result.toks) IN
       QuoteFoundElsewhere(quote, "scholar",
                           IF m.ok THEN FormatCite(m.vol, m.rptr, m.page) ELSE <<>>,
                           "found via scholar")
  ELSE QuoteNotFound(quote)

(***************************************************************************)
(* Inputs of SpecScore.  PlainText scores nothing; WorstText scores the    *)
(* maximum of every text criterion.  Texts are these two and every text    *)
(* that differs from one of them in what one detector measures.            *)
(***************************************************************************)
NoHeader == Header("", "", "", "", FALSE)

PlainText ==
  [word_count |-> 600, malformed |-> 0, pro_se_phrase |-> FALSE, legalese |-> 0,
   sentences |-> <<10, 20, 30, 12, 25>>, passive |-> 0, header |-> NoHeader,
   records |-> 3, paragraphs |-> <<>>, procedural |-> 4, explainer |-> 0,
   buzzwords |-> 0, dashes |-> 0, hyphens |-> 0]

WorstText ==
  [word_count |-> 1200, malformed |-> 5, pro_se_phrase |-> TRUE, legalese |-> 10,
   sentences |-> <<40, 40, 40, 40, 40>>, passive |-> 5, header |-> NoHeader,
   records |-> 0,
   paragraphs |-> <<{"court", "held"}, {"court", "held"}, {"court", "held"},
                    {"court", "held"}>>,
   procedural |-> 0, explainer |-> 5, buzzwords |-> 5, dashes |-> 16, hyphens |-> 6]

SentenceShapes ==
  {<<10, 20, 30>>, <<10, 20, 30, 12, 25>>, <<20, 20, 20, 20, 21>>,
   <<10, 10, 10, 16, 16>>, <<40, 40, 40, 40, 40>>, <<10, 90, 30, 70, 50>>}

Headers ==
  {NoHeader,
   Header("eleventh", "", "", "", FALSE),
   Header("2d", "", "", "", FALSE),
   Header("fifteenth", "florida", "", "", FALSE),
   Header("", "new york", "", "", FALSE),
   Header("", "", "alabama", "", FALSE),
   Header("", "", "", "georgia", FALSE),
   Header("", "", "united states", "", TRUE),
   Header("", "", "", "columbia", FALSE)}

ParagraphShapes ==
  {<<>>,
   <<{"court", "held"}, {"motion", "denied"}, {"appeal", "filed"}>>,
   <<{"court", "held"}, {"court", "held"}, {"appeal", "filed"}>>,
   <<{"court", "held"}, {"court", "held"}, {"court", "held"}, {"court", "held"}>>}

Variants(base) ==
  {base}
  \cup {[base EXCEPT !.malformed = v] : v \in {0, 1, 3, 5}}
  \cup {[base EXCEPT !.pro_se_phrase = v] : v \in BOOLEAN}
  \cup {[base EXCEPT !.legalese = v] : v \in {0, 1, 2, 3, 5, 6}}
  \cup {[base EXCEPT !.word_count = v] : v \in {90, 499, 600, 1001, 1200, 5000}}
  \cup {[base EXCEPT !.sentences = v] : v \in SentenceShapes}
  \cup {[base EXCEPT !.passive = v] : v \in {0, 2, 3, 4}}
  \cup {[base EXCEPT !.header = v] : v \in Headers}
  \cup {[base EXCEPT !.records = v] : v \in {0, 1, 3}}
  \cup {[base EXCEPT !.paragraphs = v] : v \in ParagraphShapes}
  \cup {[base EXCEPT !.procedural = v] : v \in {0, 1, 2, 4}}
  \cup {[base EXCEPT !.explainer = v] : v \in {0, 1, 3, 5}}
  \cup {[base EXCEPT !.buzzwords = v] : v \in {0, 1, 3, 5}}
  \cup {[base EXCEPT !.dashes = v] : v \in {4, 5, 9, 16}}
  \cup {[base EXCEPT !.hyphens = v] : v \in {0, 1, 3, 6}}

Texts == Variants(PlainText) \cup Variants(WorstText)

Flags == [pro_se_override : BOOLEAN, allow_other_state : BOOLEAN, allow_federal : BOOLEAN]

DefaultFlags ==
  [pro_se_override |-> FALSE, allow_other_state |-> FALSE, allow_federal |-> FALSE]

\* a verified Citation: status and suggestion as verify_citation left them
ScoreCite(status, court, suggestion) ==
  [Citation(SmithJones, D123, "So. 2d", D456, court)
     EXCEPT !.status = status, !.suggestion = suggestion]

NearCite == FormatCite(<<1, 2, 4>>, "So. 2d", D456)

FarCite == FormatCite(<<9, 8, 7>>, "P.3d", <<7, 7, 7>>)

NotFoundPlain == ScoreCite("not_found", "N.Y", <<>>)

\* the search by name returns the case under a citation with two digits
\* of the volume transposed
TransposedSearch ==
  HttpResponse("ok", 200, SBodyObject(ResultList(
    <<ResultObj(CiteList(<<ProviderCite(<<2, 1, 3>>, "So. 2d", D456)>>))>>)))

\* a not_found citation as verify_citation leaves it after that search
NotFoundTypo ==
  ApplySuggestion(ScoreCite("not_found", "11th Cir", <<>>),
                  _suggest_correction(ScoreCite("not_found", "11th Cir", <<>>),
                                      TransposedSearch).suggestion)

MismatchTypo == ScoreCite("mismatch", "", NearCite)

MismatchFar == ScoreCite("mismatch", "Ga", FarCite)

ScoreCites ==
  {ScoreCite("verified", "Fla", <<>>), NotFoundPlain, NotFoundTypo, MismatchTypo,
   MismatchFar, ScoreCite("mismatch", "2d Cir", <<>>),
   ScoreCite("error", "S.D. Fla", <<>>), ScoreCite("unrecognized", "Ala", <<>>)}

FlaggedCites == {NotFoundPlain, NotFoundTypo, MismatchTypo, MismatchFar}

Listed(items) == [is_none |-> FALSE, items |-> items]

NoneCitations == [is_none |-> TRUE, items |-> <<>>]

\* two not_found and two mismatch citations, all out of jurisdiction
WorstCitations == Listed(<<NotFoundPlain, MismatchFar, NotFoundPlain, MismatchFar>>)

CitationLists ==
  {NoneCitations, WorstCitations} \cup {Listed(l) : l \in SeqsUpTo(ScoreCites, MaxCites)}

FlaggedLists ==
  {WorstCitations} \cup {Listed(l) : l \in SeqsUpTo(FlaggedCites, MaxCites)}

GivenCite == FormatCite(D123, "So. 2d", D456)

\* a verified Quote: status and found_cite as verify_quote left them
ScoreQuote(status, found_cite) ==
  [Quote(0, GivenCite) EXCEPT !.status = status, !.found_cite = found_cite]

ScoreQuotes ==
  {ScoreQuote("found_elsewhere", NearCite), ScoreQuote("found_elsewhere", FarCite),
   ScoreQuote("not_found", <<>>), ScoreQuote("verified", <<>>)}

QuoteLists == SeqsUpTo(ScoreQuotes, MaxQuotes)

\* quotes of every status, for the analyses without flagged citations
AllScoreQuotes ==
  ScoreQuotes \cup {ScoreQuote("found_elsewhere", <<>>), ScoreQuote("pending", <<>>),
                    ScoreQuote("found_elsewhere", FormatCite(<<2, 1, 4>>, "So.2d", D456)),
                    ScoreQuote("found_elsewhere", FormatCite(<<3, 2, 1>>, "So. 2d", <<4, 6, 5>>))}

\* the court strings of the citations under test
Courts ==
  {"", "Fla", "Fla. 3d DCA", "11th Cir", "D.C. Cir", "S.D. Fla", "N.Y", "Ga", "Ala",
   "2d Cir", "D. Mass"}

\* every header over the plain text
HeaderTexts == {[PlainText EXCEPT !.header = h] : h \in Headers}

\* out citations of another state's court followed by citations of a Florida court
ShareList(out, total) ==
  [k \in 1..total |-> IF k <= out THEN ScoreCite("verified", "Ga", <<>>)
                      ELSE ScoreCite("verified", "Fla", <<>>)]

ShareLists == {Listed(ShareList(out, total)) : out \in 0..MaxShare, total \in 1..MaxShare}

(***************************************************************************)
(* SpecScore: the scoring of one analysis.  ComputeScore is the call of    *)
(* compute_ai_score, ComputeHumanError the call of                         *)
(* compute_human_error_adjustment on the same citations, and the page then *)
(* shows the adjusted score (DisplayHumanError) when there are items, and  *)
(* only the score (DisplayScoreOnly) when there are none.                  *)
(***************************************************************************)
InitScore ==
  /\ \/ /\ stext \in Texts
        /\ scitations \in {NoneCitations, Listed(<<>>),
                           Listed(<<NotFoundPlain, ScoreCite("verified", "Fla", <<>>)>>)}
        /\ sflags \in Flags
        /\ squotes = <<>>
     \/ /\ stext \in {PlainText, WorstText}
        /\ scitations \in CitationLists
        /\ sflags \in Flags
        /\ squotes = <<>>
     \/ /\ stext \in {PlainText, WorstText}
        /\ scitations \in FlaggedLists
        /\ sflags = DefaultFlags
        /\ squotes \in QuoteLists
     \/ /\ stext = PlainText
        /\ scitations \in {Listed(<<>>), Listed(<<MismatchFar>>)}
        /\ sflags = DefaultFlags
        /\ squotes \in SeqsUpTo(AllScoreQuotes, MaxQuotes) \ {<<>>}
     \/ /\ stext \in HeaderTexts
        /\ scitations \in {Listed(<<ScoreCite("verified", court, <<>>)>>) : court \in Courts}
        /\ sflags \in Flags
        /\ squotes = <<>>
     \/ /\ stext = PlainText
        /\ scitations \in ShareLists
        /\ sflags \in Flags
        /\ squotes = <<>>
  /\ sscore = NoScore
  /\ shuman = NoHumanError
  /\ sshown = NotShown
  /\ spc = "start"
  /\ VerifyIdle
  /\ ServerIdle
  /\ ExtractIdle

ComputeScore ==
  /\ spc = "start"
  /\ sscore' = compute_ai_score(stext, scitations, sflags.pro_se_override,
                                sflags.allow_other_state, sflags.allow_federal)
  /\ spc' = "scored"
  /\ UNCHANGED <<stext, scitations, squotes, sflags, shuman, sshown>>
  /\ UNCHANGED <<vvars, jvars, evars>>

ComputeHumanError ==
  /\ spc = "scored"
  /\ shuman' = compute_human_error_adjustment(scitations.items, squotes)
  /\ spc' = "analysed"
  /\ UNCHANGED <<stext, scitations, squotes, sflags, sscore, sshown>>
  /\ UNCHANGED <<vvars, jvars, evars>>

DisplayHumanError ==
  /\ spc = "analysed"
  /\ shuman.items # <<>>
  /\ sshown' = displayHumanError(shuman, sscore.total_score)
  /\ spc' = "shown"
  /\ UNCHANGED <<stext, scitations, squotes, sflags, sscore, shuman>>
  /\ UNCHANGED <<vvars, jvars, evars>>

DisplayScoreOnly ==
  /\ spc = "analysed"
  /\ shuman.items = <<>>
  /\ spc' = "done"
  /\ UNCHANGED <<stext, scitations, squotes, sflags, sscore, shuman, sshown>>
  /\ UNCHANGED <<vvars, jvars, evars>>

NextScore == ComputeScore \/ ComputeHumanError \/ DisplayHumanError \/ DisplayScoreOnly

SpecScore == InitScore /\ [][NextScore]_vars

(***************************************************************************)
(* The server.  jobs holds the keys of the jobs dict; store[j] is the job   *)
(* object made for id j, which a stream keeps using after /download has    *)
(* popped the key.  results and quote_results hold positions in citations  *)
(* and quotes: the lists hold the same objects.                            *)
(***************************************************************************)
JobIds == {"j1", "j2"}

Streams == {"s1", "s2"}

EmptyText ==
  [word_count |-> 0, malformed |-> 0, pro_se_phrase |-> FALSE, legalese |-> 0,
   sentences |-> <<>>, passive |-> 0, header |-> NoHeader, records |-> 0,
   paragraphs |-> <<>>, procedural |-> 0, explainer |-> 0, buzzwords |-> 0,
   dashes |-> 0, hyphens |-> 0]

Job(citations, quotes, text, flags) ==
  [made |-> TRUE, citations |-> citations, results |-> <<>>, quotes |-> quotes,
   quote_results |-> <<>>, has_text |-> TRUE, text |-> text, flags |-> flags]

NoJob ==
  [Job(<<>>, <<>>, EmptyText, DefaultFlags) EXCEPT !.made = FALSE, !.has_text = FALSE]

\* events: what the generator has yielded; requested, slept, undelayed: the
\* provider requests of the stream's session and the tenths of a second
\* slept since the last one
Stream(pc, job, i, qi, all_results, ai, human_error) ==
  [pc |-> pc, job |-> job, i |-> i, qi |-> qi, all_results |-> all_results,
   ai |-> ai, human_error |-> human_error, events |-> <<>>,
   requested |-> FALSE, slept |-> 0, undelayed |-> FALSE]

\* REQUEST_DELAY = 1.1 seconds, in tenths of a second
REQUEST_DELAY == 11

\* time.sleep(REQUEST_DELAY)
NoSleep(st) == st

Sleep(st) == [st EXCEPT !.slept = Min2(@ + REQUEST_DELAY, REQUEST_DELAY)]

\* session.get / session.post to the provider
Request(st) ==
  [st EXCEPT !.undelayed = @ \/ (st.requested /\ st.slept < REQUEST_DELAY),
             !.requested = TRUE, !.slept = 0]

\* yield of one server-sent event; index counts from 0, -1 when it has none
Event(type, index) == [type |-> type, index |-> index]

Yield(st, type, index) == [st EXCEPT !.events = Append(@, Event(type, index))]

IdleStream == Stream("idle", "", 0, 0, ResultsOf("emptylist"), NoScore, NoHumanError)

\* the documents uploaded: extract_citations and extract_quotes have run
SmithCite == Citation(SmithJones, D123, "So. 2d", D456, "Fla")

DoeCite == Citation(DoeRoe, D456, "F.3d", D123, "11th Cir")

Document(citations, quotes, text) ==
  [citations |-> citations, quotes |-> quotes, text |-> text]

Documents ==
  {Document(<<SmithCite>>, <<Quote(0, FormatCite(D123, "So. 2d", D456))>>, PlainText),
   Document(<<DoeCite, SmithCite>>, <<>>, PlainText)}

UploadFlags == {DefaultFlags}

\* the provider's answers to the server's requests
ServerLookups ==
  {HttpResponse("ok", 200, BodyList(<<EntryObj(200, Matching)>>)),
   HttpResponse("ok", 200, BodyList(<<EntryObj(404, ClustersOf("absent"))>>)),
   HttpResponse("ok", 200, BodyOf("number"))}

ServerSearches ==
  {HttpResponse("ok", 200, SBodyObject(ResultList(<<ResultObj(CiteList(
      <<ProviderCite(<<1, 2, 4>>, "So. 2d", D456)>>))>>))),
   HttpResponse("ok", 200, SBodyObject(ResultsOf("emptylist")))}

QuoteSearches ==
  {HttpResponse("exception", 0, SBodyOf("invalid")),
   HttpResponse("ok", 200, SBodyOf("other")),       \* a body that is no object
   HttpResponse("ok", 200, SBodyObject(ResultList(<<QResult(Str(SmithJones),
      CiteList(<<ProviderCite(D123, "So. 2d", D456)>>))>>))),
   HttpResponse("ok", 200, SBodyObject(ResultList(<<QResult(Str(DoeRoe),
      CiteList(<<ProviderCite(<<1, 2, 4>>, "So. 2d", D456)>>))>>)))}

ScholarResults ==
  {NoScholar, Scholar(<<WordTok("Doe"), WordTok("v."), WordTok("Roe,")>> \o FarCite)}

Init ==
  /\ jobs = {}
  /\ store = [j \in JobIds |-> NoJob]
  /\ streams = [s \in Streams |-> IdleStream]
  /\ calls = [j \in JobIds |-> <<>>]
  /\ qcalls = [j \in JobIds |-> <<>>]
  /\ VerifyIdle
  /\ ScoreIdle
  /\ ExtractIdle

\* job ids are fresh: uuid4 never repeats one
Made(j) == store[j].made

\* ids carry no meaning: j1 is the first job made, s1 the first stream opened
InOrder(x, first, taken) == x = first \/ taken

\* POST /upload
Upload(j) ==
  /\ ~Made(j)
  /\ InOrder(j, "j1", Made("j1"))
  /\ \E doc \in Documents, flags \in UploadFlags :
       /\ store' = [store EXCEPT ![j] = Job(doc.citations, doc.quotes, doc.text, flags)]
       /\ calls' = [calls EXCEPT ![j] = [i \in DOMAIN doc.citations |-> 0]]
       /\ qcalls' = [qcalls EXCEPT ![j] = [i \in DOMAIN doc.quotes |-> 0]]
  /\ jobs' = jobs \cup {j}
  /\ UNCHANGED streams
  /\ UNCHANGED <<vvars, svars, evars>>

\* GET /download/<job_id> of a known job; an unknown one is answered 404
Download(j) ==
  /\ j \in jobs
  /\ jobs' = jobs \ {j}
  /\ UNCHANGED <<store, streams, calls, qcalls>>
  /\ UNCHANGED <<vvars, svars, evars>>

\* GET /verify/<job_id> of a known job: the handler returns the stream
Verify(s, j) ==
  /\ streams[s].pc = "idle"
  /\ InOrder(s, "s1", streams["s1"].pc # "idle")
  /\ j \in jobs
  /\ streams' = [streams EXCEPT ![s] = [@ EXCEPT !.pc = "opened", !.job = j]]
  /\ UNCHANGED <<jobs, store, calls, qcalls>>
  /\ UNCHANGED <<vvars, svars, evars>>

\* the generator starts: job = jobs[job_id]
Generate(s) ==
  /\ streams[s].pc = "opened"
  /\ streams' = [streams EXCEPT ![s] =
       IF @.job \in jobs THEN [@ EXCEPT !.pc = "cites", !.i = 1]
       ELSE [@ EXCEPT !.pc = "crashed"]]
  /\ UNCHANGED <<jobs, store, calls, qcalls>>
  /\ UNCHANGED <<vvars, svars, evars>>

\* verify_citation(cite, session) is called and sends its lookup request
BeginLookup(s) ==
  LET st == streams[s] IN
  /\ st.pc \in {"cites", "cite_sleep"}
  /\ st.i <= Len(store[st.job].citations)
  /\ streams' = [streams EXCEPT ![s] = [Request(st) EXCEPT !.pc = "lookup"]]
  /\ calls' = [calls EXCEPT ![st.job][st.i] = @ + 1]
  /\ UNCHANGED <<jobs, store, qcalls>>
  /\ UNCHANGED <<vvars, svars, evars>>

\* verify_citation has returned: job["results"].append(cite), the result
\* event, and the sleep when another citation follows
Emitted(st, job) ==
  LET sent == Yield(st, "result", st.i - 1) IN
  IF st.i < Len(job.citations)
  THEN [Sleep(sent) EXCEPT !.pc = "cite_sleep", !.i = st.i + 1]
  ELSE [sent EXCEPT !.pc = "cites", !.i = st.i + 1]

\* the lookup response arrives: steps 1 and 2 of verify_citation
EndLookup(s) ==
  LET st == streams[s]
      job == store[st.job]
  IN
  /\ st.pc = "lookup"
  /\ \E resp \in ServerLookups :
       LET out == ClassifyLookup(job.citations[st.i], resp)
           searches == /\ out.ctl = "continue"
                       /\ WantsSuggestion(out.cite)
                       /\ ~PartiesTooShort(out.cite)
       IN  /\ store' = [store EXCEPT ![st.job] =
                 [@ EXCEPT !.citations[st.i] = out.cite,
                           !.results = IF out.ctl = "raise" \/ searches THEN @
                                       ELSE Append(@, st.i)]]
           /\ streams' = [streams EXCEPT ![s] =
                 IF out.ctl = "raise" THEN [st EXCEPT !.pc = "crashed"]
                 ELSE IF searches THEN [st EXCEPT !.pc = "search_sleep"]
                 ELSE Emitted(st, job)]
  /\ UNCHANGED <<jobs, calls, qcalls>>
  /\ UNCHANGED <<vvars, svars, evars>>

\* _suggest_correction has slept and sends its search request
BeginSearch(s) ==
  /\ streams[s].pc = "search_sleep"
  /\ streams' = [streams EXCEPT ![s] = [Request(Sleep(@)) EXCEPT !.pc = "search"]]
  /\ UNCHANGED <<jobs, store, calls, qcalls>>
  /\ UNCHANGED <<vvars, svars, evars>>

\* the search response arrives: the rest of verify_citation
EndSearch(s) ==
  LET st == streams[s]
      job == store[st.job]
  IN
  /\ st.pc = "search"
  /\ \E sresp \in ServerSearches :
       LET sug == _suggest_correction(job.citations[st.i], sresp) IN
       /\ store' = [store EXCEPT ![st.job] =
             IF sug.ctl = "raise" THEN @
             ELSE [@ EXCEPT !.citations[st.i] = ApplySuggestion(@, sug.suggestion),
                            !.results = Append(@, st.i)]]
       /\ streams' = [streams EXCEPT ![s] =
             IF sug.ctl = "raise" THEN [st EXCEPT !.pc = "crashed"]
             ELSE Emitted(st, job)]
  /\ UNCHANGED <<jobs, calls, qcalls>>
  /\ UNCHANGED <<vvars, svars, evars>>

\* list(job["results"]) and list(job["quote_results"]): the objects now
ResultsOfJob(job) == [k \in DOMAIN job.results |-> job.citations[job.results[k]]]

QuoteResultsOfJob(job) == [k \in DOMAIN job.quote_results |-> job.quotes[job.quote_results[k]]]

\* job.get("text", "")
TextOfJob(job) == IF job.has_text THEN job.text ELSE EmptyText

\* every citation is done: compute_ai_score, then the quote phase if any
Score(s) ==
  LET st == streams[s]
      job == store[st.job]
  IN
  /\ st.pc \in {"cites", "cite_sleep"}
  /\ st.i > Len(job.citations)
  /\ streams' = [streams EXCEPT ![s] =
       [(IF job.quotes # <<>> THEN Yield(st, "quote_phase", -1) ELSE st)
           EXCEPT !.ai = compute_ai_score(TextOfJob(job), Listed(ResultsOfJob(job)),
                                          job.flags.pro_se_override,
                                          job.flags.allow_other_state,
                                          job.flags.allow_federal),
                  !.pc = IF job.quotes # <<>> THEN "quotes" ELSE "finish",
                  !.qi = 1]]
  /\ UNCHANGED <<jobs, store, calls, qcalls>>
  /\ UNCHANGED <<vvars, svars, evars>>

\* the quote is settled: job["quote_results"].append(quote), its event
QuoteDone(st, quote) ==
  /\ store' = [store EXCEPT ![st.job] =
        [@ EXCEPT !.quotes[st.qi] = quote, !.quote_results = Append(@, st.qi)]]
  /\ \E s \in Streams :
       /\ streams[s] = st
       /\ streams' = [streams EXCEPT ![s] =
             [Yield(st, "quote_result", st.qi - 1)
                EXCEPT !.pc = "quotes", !.qi = st.qi + 1,
                       !.all_results = ResultsOf("emptylist")]]

Crashed(s) ==
  /\ streams' = [streams EXCEPT ![s] = [@ EXCEPT !.pc = "crashed"]]
  /\ UNCHANGED store

\* the next quote: verify_quote is called and, after its sleep, sends the
\* jurisdiction-filtered search, or the broad one when there is no filter
BeginQuote(s) ==
  LET st == streams[s]
      job == store[st.job]
      quote == job.quotes[st.qi]
      resolved == quote.cite_index < Len(job.citations)
      cite == job.citations[quote.cite_index + 1]
  IN
  /\ st.pc = "quotes"
  /\ st.qi <= Len(job.quotes)
  /\ IF ~resolved
     THEN /\ store' = [store EXCEPT ![st.job] =
                [@ EXCEPT !.quotes[st.qi] =
                            [quote EXCEPT !.status = "not_found",
                                          !.detail = "could not resolve"],
                          !.quote_results = Append(@, st.qi)]]
          /\ streams' = [streams EXCEPT ![s] =
                [Yield(st, "quote_result", st.qi - 1) EXCEPT !.qi = st.qi + 1]]
          /\ UNCHANGED qcalls
     ELSE /\ streams' = [streams EXCEPT ![s] =
                [Request(Sleep(st))
                   EXCEPT !.pc = IF _get_jurisdiction_courts(cite.reporter) # ""
                                 THEN "qjuris" ELSE "qbroad"]]
          /\ qcalls' = [qcalls EXCEPT ![st.job][st.qi] = @ + 1]
          /\ UNCHANGED store
  /\ UNCHANGED <<jobs, calls>>
  /\ UNCHANGED <<vvars, svars, evars>>

\* the jurisdiction-filtered search is answered
EndQJuris(s) ==
  LET st == streams[s]
      job == store[st.job]
      quote == job.quotes[st.qi]
      cite == job.citations[quote.cite_index + 1]
  IN
  /\ st.pc = "qjuris"
  /\ \E resp \in QuoteSearches :
       LET juris_results == _search_courtlistener_for_quote(resp)
           matched == _check_results_for_cited_case(juris_results.results, cite)
       IN  IF juris_results.ctl = "raise" THEN Crashed(s)
           ELSE IF ~ResultsTruthy(juris_results)
                THEN /\ streams' = [streams EXCEPT ![s] = [st EXCEPT !.pc = "qbroad_sleep"]]
                     /\ UNCHANGED store
           ELSE IF matched.ctl = "raise" THEN Crashed(s)
           ELSE IF MatchedTruthy(matched) THEN QuoteDone(st, QuoteVerified(quote))
           ELSE /\ streams' = [streams EXCEPT ![s] =
                      [st EXCEPT !.pc = "qbroad_sleep",
                                 !.all_results = juris_results.results]]
                /\ UNCHANGED store
  /\ UNCHANGED <<jobs, calls, qcalls>>
  /\ UNCHANGED <<vvars, svars, evars>>

\* the broad search is sent after its sleep
BeginQBroad(s) ==
  /\ streams[s].pc = "qbroad_sleep"
  /\ streams' = [streams EXCEPT ![s] = [Request(Sleep(@)) EXCEPT !.pc = "qbroad"]]
  /\ UNCHANGED <<jobs, store, calls, qcalls>>
  /\ UNCHANGED <<vvars, svars, evars>>

\* the broad search is answered: verified, found elsewhere, or on to
\* Google Scholar
EndQBroad(s) ==
  LET st == streams[s]
      job == store[st.job]
      quote == job.quotes[st.qi]
      cite == job.citations[quote.cite_index + 1]
  IN
  /\ st.pc = "qbroad"
  /\ \E resp \in QuoteSearches :
       LET broad_results == _search_courtlistener_for_quote(resp)
           matched == _check_results_for_cited_case(broad_results.results, cite)
           all_results == IF st.all_results.kind = "emptylist" /\ ResultsTruthy(broad_results)
                          THEN broad_results.results ELSE st.all_results
       IN  IF broad_results.ctl = "raise" THEN Crashed(s)
           ELSE IF ResultsTruthy(broad_results) /\ matched.ctl = "raise" THEN Crashed(s)
           ELSE IF ResultsTruthy(broad_results) /\ MatchedTruthy(matched)
                THEN QuoteDone(st, QuoteVerified(quote))
           ELSE IF all_results.kind # "emptylist"
                THEN QuoteDone(st, QuoteFoundElsewhere(quote, "courtlistener",
                                     _extract_found_elsewhere(all_results),
                                     "not found in cited case"))
           ELSE /\ streams' = [streams EXCEPT ![s] = [st EXCEPT !.pc = "qscholar"]]
                /\ UNCHANGED store
  /\ UNCHANGED <<jobs, calls, qcalls>>
  /\ UNCHANGED <<vvars, svars, evars>>

\* Google Scholar has answered
EndScholar(s) ==
  LET st == streams[s]
      quote == store[st.job].quotes[st.qi]
  IN
  /\ st.pc = "qscholar"
  /\ \E scholar_result \in ScholarResults :
       QuoteDone(st, QuoteAfterScholar(quote, scholar_result))
  /\ UNCHANGED <<jobs, calls, qcalls>>
  /\ UNCHANGED <<vvars, svars, evars>>

\* compute_human_error_adjustment, the done event, and the text of every
\* stored job dropped
FinishPopsEveryText(s) ==
  LET st == streams[s]
      job == store[st.job]
  IN
  /\ \/ st.pc = "finish"
     \/ st.pc = "quotes" /\ st.qi > Len(job.quotes)
  /\ streams' = [streams EXCEPT ![s] =
       [Yield(st, "done", -1)
           EXCEPT !.pc = "done",
                  !.human_error = compute_human_error_adjustment(ResultsOfJob(job),
                                                                 QuoteResultsOfJob(job))]]
  /\ store' = [j \in JobIds |-> [store[j] EXCEPT !.has_text = FALSE]]
  /\ UNCHANGED <<jobs, calls, qcalls>>
  /\ UNCHANGED <<vvars, svars, evars>>

\* compute_human_error_adjustment, the done event, job.pop("text", None)
Finish(s) ==
  LET st == streams[s]
      job == store[st.job]
  IN
  /\ \/ st.pc = "finish"
     \/ st.pc = "quotes" /\ st.qi > Len(job.quotes)
  /\ streams' = [streams EXCEPT ![s] =
       [Yield(st, "done", -1)
           EXCEPT !.pc = "done",
                  !.human_error = compute_human_error_adjustment(ResultsOfJob(job),
                                                                 QuoteResultsOfJob(job))]]
  /\ store' = [store EXCEPT ![st.job] = [@ EXCEPT !.has_text = FALSE]]
  /\ UNCHANGED <<jobs, calls, qcalls>>
  /\ UNCHANGED <<vvars, svars, evars>>

Next ==
  \/ \E j \in JobIds : Upload(j) \/ Download(j)
  \/ \E s \in Streams, j \in JobIds : Verify(s, j)
  \/ \E s \in Streams :
       \/ Generate(s) \/ BeginLookup(s) \/ EndLookup(s) \/ BeginSearch(s) \/ EndSearch(s)
       \/ Score(s) \/ BeginQuote(s) \/ EndQJuris(s) \/ BeginQBroad(s) \/ EndQBroad(s)
       \/ EndScholar(s) \/ Finish(s)

Spec == Init /\ [][Next]_vars

(***************************************************************************)
(* Extraction.  The text is the sequence, in reading order, of its         *)
(* citation spans and its quoted passages.  A citation span carries the    *)
(* grammar that matches it ("full" for FULL_CITE_RE, "in_re" for           *)
(* IN_RE_CITE_RE) and the groups of the match; parties is the name after   *)
(* _trim_party_name.  A quoted passage carries the length of its stripped  *)
(* text, what the 80 characters after its closing mark hold ("id" for      *)
(* Id., "ibid" for Ibid., "none"), and whether the next citation span      *)
(* starts within 300 characters of its closing mark.                       *)
(***************************************************************************)
CiteEl(grammar, parties, vol, rptr, page, court) ==
  [kind |-> "cite", grammar |-> grammar, parties |-> parties, vol |-> vol,
   rptr |-> rptr, page |-> page, court |-> court,
   length |-> 0, follow |-> "none", near |-> FALSE]

QuoteEl(length, follow, near) ==
  [kind |-> "quote", grammar |-> "", parties |-> <<>>, vol |-> <<>>,
   rptr |-> "", page |-> <<>>, court |-> "",
   length |-> length, follow |-> follow, near |-> near]

\* key = (m.group("volume"), m.group("reporter").strip(), m.group("page"))
Key(m) == <<m.vol, m.rptr, m.page>>

\* pattern.finditer(text): the matches of one grammar, in reading order
Finditer(text, grammar) ==
  SelectSeq(text, LAMBDA el : el.kind = "cite" /\ el.grammar = grammar)

RECURSIVE Retain(_, _, _)
\* the loop body over the matches: `if key in seen: continue`, else append
Retain(matches, seen, citations) ==
  IF matches = <<>> THEN [seen |-> seen, citations |-> citations]
  ELSE LET m == Head(matches) IN
       IF Key(m) \in seen THEN Retain(Tail(matches), seen, citations)
       ELSE Retain(Tail(matches), seen \cup {Key(m)},
                   Append(citations, Citation(m.parties, m.vol, m.rptr, m.page, m.court)))

\* each grammar deduplicated on its own
extract_citations_per_grammar(text) ==
  Retain(Finditer(text, "full"), {}, <<>>).citations
    \o Retain(Finditer(text, "in_re"), {}, <<>>).citations

\* `for pattern in (FULL_CITE_RE, IN_RE_CITE_RE)` over one seen set
extract_citations(text) ==
  LET full == Retain(Finditer(text, "full"), {}, <<>>)
  IN  Retain(Finditer(text, "in_re"), full.seen, full.citations).citations

IsSuffix(s, whole) == Len(s) <= Len(whole) /\ LastN(whole, Len(s)) = s

IsPrefix(s, whole) == Len(s) <= Len(whole) /\ FirstN(whole, Len(s)) = s

\* re.finditer(volume \s+ reporter \s+ page) finds the pattern in a span:
\* the pattern has no anchors, so it is also found inside longer numbers
Occurs(cite, el) ==
  /\ el.kind = "cite"
  /\ el.rptr = cite.reporter
  /\ IsSuffix(cite.volume, el.vol)
  /\ IsPrefix(cite.page, el.page)

\* cite_positions: (element, offset in the element, citation index from 1)
cite_positions(text, citations) ==
  {p \in (DOMAIN text) \X (0..VolumeDigits) \X (DOMAIN citations) :
     /\ Occurs(citations[p[3]], text[p[1]])
     /\ p[2] = Len(text[p[1]].vol) - Len(citations[p[3]].volume)}

\* the order of the sorted list: by position, then (the sort is stable) by
\* citation index
Earlier(p, q) ==
  \/ p[1] < q[1]
  \/ p[1] = q[1] /\ p[2] < q[2]
  \/ p[1] = q[1] /\ p[2] = q[2] /\ p[3] < q[3]

\* _ID_RE.search(after_text[:80]): \bId\. does not match inside "Ibid."
_ID_RE(follow) == follow = "id"

Attributed(index, last) == [index |-> index, last |-> last]

\* the attribution of the quote at element k; index -1 stands for None,
\* indexes count from 0
Attribute(text, citations, k, last_cite_index) ==
  LET positions == cite_positions(text, citations)
      after == {p \in positions : p[1] > k /\ text[k].near}
      before == {p \in positions : p[1] < k}
  IN  IF _ID_RE(text[k].follow) THEN Attributed(last_cite_index, last_cite_index)
      ELSE IF after # {}
           THEN LET p == CHOOSE p \in after : \A q \in after : p = q \/ Earlier(p, q)
                IN  Attributed(p[3] - 1, p[3] - 1)
      ELSE IF before # {}
           THEN LET p == CHOOSE p \in before : \A q \in before : p = q \/ Earlier(q, p)
                IN  Attributed(p[3] - 1, p[3] - 1)
      ELSE Attributed(-1, last_cite_index)

MinQuoteLength == 40   \* len(quoted_text.strip()) < 40 is skipped

MaxQuoteText == 500    \* quoted_text[:500]

\* the Quote with its whole text
ExtractedQuoteWhole(length, cite_index, cite_label) ==
  [text_len |-> length, quote |-> Quote(cite_index, cite_label)]

\* Quote(text=quoted_text[:500], cite_index=..., cite_label=...)
ExtractedQuote(length, cite_index, cite_label) ==
  [text_len |-> Min2(length, MaxQuoteText), quote |-> Quote(cite_index, cite_label)]

(***************************************************************************)
(* Inputs of SpecExtract.                                                  *)
(***************************************************************************)
MaxText == 3   \* longest text, in elements

CiteEls ==
  {CiteEl("full", SmithJones, D123, "So. 2d", D456, "Fla"),
   CiteEl("in_re", <<"In", "re", "Smith">>, D123, "So. 2d", D456, "Fla"),
   CiteEl("full", StateX, D123, "So. 2d", D456, "Fla"),
   CiteEl("in_re", <<"In", "re", "Doe">>, D456, "F.3d", D123, "11th Cir"),
   CiteEl("full", DoeRoe, <<5, 1, 2, 3>>, "So. 2d", <<4, 5, 6, 7>>, "Fla")}

QuoteEls ==
  {QuoteEl(MinQuoteLength - 1, "none", TRUE), QuoteEl(MaxQuoteText + 1, "none", TRUE)}
    \cup {QuoteEl(60, follow, near) : follow \in {"none", "id", "ibid"}, near \in BOOLEAN}

ExtractTexts == SeqsUpTo(CiteEls \cup QuoteEls, MaxText)

(***************************************************************************)
(* SpecExtract: /upload's extraction of one text.  ExtractCitations is the *)
(* call of extract_citations; BeginQuotes, QuoteStep and EndQuotes are     *)
(* extract_quotes, one iteration of its loop over the quoted passages at a *)
(* time.  VerifyExtracted is a verification changing a Citation object of  *)
(* the list, and ExtractAgain a second extract_citations on the same text. *)
(***************************************************************************)
InitExtract ==
  /\ etext \in ExtractTexts
  /\ ecites = <<>>
  /\ efirst = <<>>
  /\ equotes = <<>>
  /\ elast = 0
  /\ ek = 0
  /\ epc = "start"
  /\ VerifyIdle
  /\ ScoreIdle
  /\ ServerIdle

ExtractCitations ==
  /\ epc = "start"
  /\ ecites' = extract_citations(etext)
  /\ efirst' = extract_citations(etext)
  /\ epc' = "cited"
  /\ UNCHANGED <<etext, equotes, elast, ek>>
  /\ UNCHANGED <<vvars, svars, jvars>>

\* extract_quotes up to its loop: `if not citations: return []`
BeginQuotes ==
  /\ epc = "cited"
  /\ equotes' = <<>>
  /\ elast' = 0
  /\ ek' = 1
  /\ epc' = IF ecites = <<>> THEN "done" ELSE "quoting"
  /\ UNCHANGED <<etext, ecites, efirst>>
  /\ UNCHANGED <<vvars, svars, jvars>>

\* the quoted passages from element k on
QuotesFrom(text, k) == {q \in k..Len(text) : text[q].kind = "quote"}

\* one iteration of `for m in _QUOTE_RE.finditer(text)`
QuoteStep ==
  /\ epc = "quoting"
  /\ QuotesFrom(etext, ek) # {}
  /\ LET k == CHOOSE k \in QuotesFrom(etext, ek) : \A q \in QuotesFrom(etext, ek) : k <= q
         a == Attribute(etext, ecites, k, elast)
         cite == ecites[a.index + 1]
     IN  /\ ek' = k + 1
         /\ IF etext[k].length < MinQuoteLength
            THEN UNCHANGED <<equotes, elast>>
            ELSE /\ elast' = a.last
                 /\ equotes' = IF a.index = -1 THEN equotes
                               ELSE Append(equotes,
                                      ExtractedQuote(etext[k].length, a.index,
                                        FormatCite(cite.volume, cite.reporter, cite.page)))
  /\ UNCHANGED <<etext, ecites, efirst, epc>>
  /\ UNCHANGED <<vvars, svars, jvars>>

\* return quotes
EndQuotes ==
  /\ epc = "quoting"
  /\ QuotesFrom(etext, ek) = {}
  /\ epc' = "done"
  /\ UNCHANGED <<etext, ecites, efirst, equotes, elast, ek>>
  /\ UNCHANGED <<vvars, svars, jvars>>

\* a verification sets the fields of one Citation object of the list
VerifyExtracted ==
  /\ epc \in {"cited", "done"}
  /\ \E i \in DOMAIN ecites, status \in {"verified", "not_found"} :
       /\ ecites[i].status = "pending"
       /\ ecites' = [ecites EXCEPT ![i] =
            IF status = "verified" THEN SetStatus(@, "verified", "matches")
            ELSE ApplySuggestion(SetStatus(@, "not_found", "no results"), NearCite)]
  /\ UNCHANGED <<etext, efirst, equotes, elast, ek, epc>>
  /\ UNCHANGED <<vvars, svars, jvars>>

\* the list of an earlier extraction returned again
extract_citations_cached(text, earlier) == earlier

\* extract_citations on the same text, after the first extraction
extract_citations_again(text, earlier) == extract_citations(text)

ExtractAgain ==
  /\ epc = "done"
  /\ efirst' = extract_citations_again(etext, ecites)
  /\ epc' = "again"
  /\ UNCHANGED <<etext, ecites, equotes, elast, ek>>
  /\ UNCHANGED <<vvars, svars, jvars>>

NextExtract ==
  \/ ExtractCitations \/ BeginQuotes \/ QuoteStep \/ EndQuotes
  \/ VerifyExtracted \/ ExtractAgain

SpecExtract == InitExtract /\ [][NextExtract]_vars

(***************************************************************************)
(* Claims about verify_citation (SpecVerify).                              *)
(***************************************************************************)
VDone == vpc \in {"returned", "raised"}

\* the lookup response of the current call is a non-empty result list
ListResponse ==
  /\ vresp.transport = "ok"
  /\ vresp.status_code # 429
  /\ vresp.body.kind = "list"
  /\ vresp.body.entries # <<>>

HasEntry(entries, statuses) ==
  \E k \in DOMAIN entries :
    entries[k].kind = "object" /\ entries[k].status \in statuses

\* C1: verify_citation never raises: whatever the provider does, the call
\* returns and leaves the citation with a final status (never pending).
C1_NeverRaises ==
  /\ vpc # "raised"
  /\ vpc = "returned" => vcite.status \in FinalStatuses

FirstDecisive(es) ==
  CHOOSE k \in DOMAIN es :
    /\ es[k].kind = "object" /\ es[k].status \in {200, 300, 400}
    /\ \A j \in 1..(k - 1) : ~(es[j].kind = "object" /\ es[j].status \in {200, 300, 400})

\* the result of comparing the cited parties with the first cluster's name
NameComparison(parties, clusters) ==
  IF clusters.kind # "list" THEN "verified"
  ELSE LET c == clusters.first
           name == IF NameTruthy(GetName(c.caseName)) THEN c.caseName ELSE c.case_name
       IN  IF name.kind = "string" /\ name.words # <<>>
              /\ normalize(parties) # {} /\ normalize(name.words) # {}
              /\ 5 * Cardinality(normalize(parties) \cap normalize(name.words))
                   < 2 * Cardinality(normalize(parties))
              /\ 5 * Cardinality(normalize(parties) \cap normalize(name.words))
                   < 2 * Cardinality(normalize(name.words))
           THEN "mismatch"
           ELSE "verified"

Scored == spc \in {"scored", "analysed", "shown", "done"}

GivenItems == IF scitations.is_none THEN <<>> ELSE scitations.items

NotFoundCount == CountStatus(GivenItems, "not_found")

MismatchCount == CountStatus(GivenItems, "mismatch")

\* C3: compute_ai_score returns total_score = min(sum of the points of its
\* thirteen criteria, 100), every criterion's points lie between 0 and its
\* max, and total_score lies in 0..100, for every text, citation list (also
\* empty or None) and flag combination.
C3_TotalIsCappedSum ==
  Scored =>
    /\ Len(sscore.criteria) = 13
    /\ \A i \in DOMAIN sscore.criteria :
         0 <= sscore.criteria[i].points
         /\ sscore.criteria[i].points <= sscore.criteria[i].max
    /\ sscore.total_score = Min2(SumPoints(sscore.criteria), 100)
    /\ sscore.total_score \in 0..100

\* the score reaches the cap: every criterion at its maximum
C3_Witness ==
  /\ spc = "scored"
  /\ ~scitations.is_none
  /\ SumPoints(sscore.criteria) = 100
  /\ sscore.total_score = 100

\* C4 as stated: a not_found or a mismatch citation in the list forces
\* auto_flagged = true.
C4_NotFoundOrMismatchFlags ==
  Scored /\ (NotFoundCount > 0 \/ MismatchCount > 0) => sscore.auto_flagged

\* C4 as the code has it: a not_found citation in the list forces
\* auto_flagged = true; mismatch citations add points to their criterion
\* but leave auto_flagged as the not_found count alone sets it.
C4_NotFoundFlags ==
  Scored =>
    /\ NotFoundCount > 0 => sscore.auto_flagged
    /\ MismatchCount > 0 /\ NotFoundCount = 0 =>
         ~sscore.auto_flagged /\ sscore.criteria[1].points > 0

\* a not_found citation among mismatches and verified ones raised the flag
C4_Witness ==
  /\ spc = "scored"
  /\ NotFoundCount = 1
  /\ MismatchCount = 1
  /\ sscore.auto_flagged

\* C5: auto_flagged is the OR of the criteria's auto_flag values and is true
\* exactly when the list holds a not_found citation, however low or high
\* total_score is.
C5_FlagIsNotFound ==
  Scored =>
    /\ sscore.auto_flagged
         = (\E i \in DOMAIN sscore.criteria : sscore.criteria[i].auto_flag = <<TRUE>>)
    /\ sscore.auto_flagged = (NotFoundCount > 0)

\* no not_found citation and a high score: not flagged
C5_Witness ==
  /\ spc = "scored"
  /\ NotFoundCount = 0
  /\ sscore.total_score > 50
  /\ ~sscore.auto_flagged

\* one not_found citation and a low score: flagged
C5_WitnessLow ==
  /\ spc = "scored"
  /\ NotFoundCount = 1
  /\ sscore.total_score = 10
  /\ sscore.auto_flagged

\* C6: the mismatch criterion gives 0 / 5 / 10 points for 0 / 1 / 2 or more
\* mismatch citations, the not-found criterion 0 / 10 / 20 points for
\* 0 / 1 / 2 or more not_found citations; exactly one not_found citation
\* gives 10 points and auto_flagged = true.
C6_PointsByCount ==
  Scored =>
    /\ sscore.criteria[1].points
         = (IF MismatchCount = 0 THEN 0 ELSE IF MismatchCount = 1 THEN 5 ELSE 10)
    /\ sscore.criteria[2].points
         = (IF NotFoundCount = 0 THEN 0 ELSE IF NotFoundCount = 1 THEN 10 ELSE 20)
    /\ NotFoundCount = 1 => sscore.criteria[2].points = 10 /\ sscore.auto_flagged

\* two mismatches and two not_found citations: 10 and 20 points
C6_Witness ==
  /\ spc = "scored"
  /\ MismatchCount = 2
  /\ NotFoundCount = 2
  /\ sscore.criteria[1].points = 10
  /\ sscore.criteria[2].points = 20

\* C7 as stated: the label is the band of total_score, with the labels
\* "Low chance", "Moderate chance entire brief was AI generated" and
\* "High chance entire brief was AI generated" for 1-10, 51-80 and 81-100.
C7_LabelAsDocumented ==
  Scored =>
    sscore.label =
      (IF sscore.total_score = 0 THEN "Not AI generated"
       ELSE IF sscore.total_score <= 10 THEN "Low chance"
       ELSE IF sscore.total_score <= 30 THEN "Moderate chance of some AI generation"
       ELSE IF sscore.total_score <= 50 THEN "High chance of some AI generation"
       ELSE IF sscore.total_score <= 80
            THEN "Moderate chance entire brief was AI generated"
       ELSE "High chance entire brief was AI generated")

BandLabel(score) ==
  CASE score = 0 -> "Not AI generated"
    [] score \in 1..10 -> "Low chance of AI generation"
    [] score \in 11..30 -> "Moderate chance of some AI generation"
    [] score \in 31..50 -> "High chance of some AI generation"
    [] score \in 51..80 -> "Moderate chance that entire brief was AI generated"
    [] score \in 81..100 -> "High chance that entire brief was AI generated"

\* C7 with the labels of the code: the label is determined by total_score
\* alone: 0 -> "Not AI generated"; 1-10 -> "Low chance of AI generation";
\* 11-30 -> "Moderate chance of some AI generation"; 31-50 -> "High chance
\* of some AI generation"; 51-80 -> "Moderate chance that entire brief was
\* AI generated"; 81-100 -> "High chance that entire brief was AI
\* generated"; the page labels the adjusted score by the same bands.
C7_LabelByBand ==
  /\ Scored => sscore.label = BandLabel(sscore.total_score)
  /\ sshown.shown => sshown.label = BandLabel(sshown.adjusted)

\* a score in the band 51-80 carries that band's label
C7_Witness ==
  /\ spc = "scored"
  /\ sscore.total_score \in 51..80
  /\ sscore.label = "Moderate chance that entire brief was AI generated"

\* C8: the adjusted score the page shows is total_score plus the adjustment,
\* clamped to 0..100, for every score and every mix of items.
C8_AdjustedIsClamped ==
  sshown.shown =>
    /\ sshown.base = sscore.total_score
    /\ sshown.adjustment = SumItemPoints(shuman.items)
    /\ sshown.adjusted \in 0..100
    /\ sshown.adjusted = Max2(0, Min2(100, sscore.total_score + shuman.adjustment))

\* the sum is above 100 and the page shows 100
C8_Witness ==
  /\ spc = "shown"
  /\ sscore.total_score + shuman.adjustment > 100
  /\ sshown.adjusted = 100

\* the sum is below 0 and the page shows 0
C8_WitnessBelow ==
  /\ spc = "shown"
  /\ sscore.total_score + shuman.adjustment < 0
  /\ sshown.adjusted = 0

(***************************************************************************)
(* Claims about the server (Spec).                                         *)
(***************************************************************************)
\* C9: under any sequence of upload, verify and download requests each
\* citation is given to verify_citation at most once and each quote to
\* verify_quote at most once: an item that has its final status is not
\* verified again.
C9_VerifiedOnce ==
  \A j \in JobIds :
    /\ \A i \in DOMAIN calls[j] : calls[j][i] <= 1
    /\ \A i \in DOMAIN qcalls[j] : qcalls[j][i] <= 1

\* the streams with a request to the case-law provider in flight
InFlight == {s \in Streams : streams[s].pc \in {"lookup", "search", "qjuris", "qbroad"}}

\* C10: no two requests to the case-law provider are in flight at the same
\* time, also when two /verify streams run concurrently.
C10_OneRequestInFlight == Cardinality(InFlight) <= 1


\* ---------------------------------------------------------------------
\* C11: within one verification run every provider request after the first
\* (lookup, did-you-mean search, filtered and unfiltered quote search) is
\* sent only after a REQUEST_DELAY sleep since the run's previous request
C11_RequestsAreSpaced == \A s \in Streams : ~streams[s].undelayed

\* the unfiltered quote search of a run is in flight, after the filtered
\* search and, before it, the lookup of the citation
C11_Witness ==
  \E s \in Streams :
    /\ streams[s].pc = "qbroad"
    /\ streams[s].requested
    /\ streams[s].slept = 0
    /\ streams[s].i > 1


\* ---------------------------------------------------------------------
\* the events of a whole stream over a job: one result per citation, then
\* the quote phase when the job has quotes, then done
ExpectedEvents(job) ==
  [k \in 1..Len(job.citations) |-> Event("result", k - 1)]
  \o (IF job.quotes # <<>>
      THEN <<Event("quote_phase", -1)>>
           \o [k \in 1..Len(job.quotes) |-> Event("quote_result", k - 1)]
      ELSE <<>>)
  \o <<Event("done", -1)>>

\* C12: a /verify stream that has started on its citations and has ended
\* has emitted one result event per citation in index order, whatever the
\* outcome of earlier citations, then the quote phase and one quote_result
\* per quote when there are quotes, then exactly one done event, and
\* nothing after it
C12_StreamCompletes ==
  \A s \in Streams :
    streams[s].pc \in {"done", "crashed"} /\ streams[s].i >= 1 =>
      streams[s].events = ExpectedEvents(store[streams[s].job])


\* ---------------------------------------------------------------------
\* C13: analyses of different documents share no job data: a step changes
\* the data of a stored job only as a step of a stream opened on that job,
\* it moves one stream at most, and it removes one job at most
C13_JobsAreIsolated ==
  [][/\ \A j \in JobIds :
          Made(j) /\ store'[j] # store[j] =>
            \E s \in Streams : streams[s].job = j /\ streams'[s] # streams[s]
     /\ Cardinality({s \in Streams : streams'[s] # streams[s]}) <= 1
     /\ Cardinality(jobs \ jobs') <= 1]_vars

\* two streams over two jobs have both emitted events while both jobs are
\* stored with their text
C13_Witness ==
  \E s, r \in Streams :
    /\ streams[s].job # streams[r].job
    /\ streams[s].events # <<>> /\ streams[r].events # <<>>
    /\ \A j \in JobIds : j \in jobs /\ store[j].has_text


\* ---------------------------------------------------------------------
\* C14: once the analysis of a job is complete (its done event is sent)
\* the server stores nothing of that job: no text, no citation or quote
\* data, no entry in the jobs store, downloaded or not
C14_NothingStoredAfterDone ==
  \A s \in Streams : streams[s].pc = "done" => streams[s].job \notin jobs


\* ---------------------------------------------------------------------
\* C15: the lookup of a pending citation is classified not_found only when
\* the provider reports the citation absent: the response is a result
\* list that is empty or has an entry with status 404
C15_NotFoundOnlyWhenAbsent ==
  (vstart = "pending" /\ vpc = "step3" /\ vcite.status = "not_found") =>
    /\ vresp.transport = "ok"
    /\ vresp.body.kind = "list"
    /\ vresp.body.entries = <<>> \/ HasEntry(vresp.body.entries, {404})


\* ---------------------------------------------------------------------
\* the search requests of the current call
SearchCount == Cardinality({k \in DOMAIN vlog : vlog[k] = "search"})

\* C16: unrecognized is terminal: a call on a pending citation that ends
\* unrecognized has sent the lookup only and leaves the suggestion empty;
\* a call sends the did-you-mean search at most once, and only for a
\* citation it leaves not_found or mismatch
C16_UnrecognizedIsTerminal ==
  /\ (vstart = "pending" /\ VDone /\ vcite.status = "unrecognized") =>
        vlog = <<"lookup">> /\ vcite.suggestion = <<>>
  /\ SearchCount <= 1
  /\ SearchCount = 1 => vcite.status \in {"not_found", "mismatch"}

\* a pending citation answered with a status-400 entry has returned
C16_Witness ==
  /\ vstart = "pending" /\ vpc = "returned"
  /\ vcite.status = "unrecognized"
  /\ HasEntry(vresp.body.entries, {400})


\* ---------------------------------------------------------------------
\* the citation strings _suggest_correction can choose from: those of the
\* first ten results of a usable search response
CandidateStrings(resp) ==
  IF /\ resp.transport = "ok" /\ resp.status_code = 200
     /\ resp.body.kind = "object" /\ resp.body.results.kind = "list"
  THEN LET top == FirstN(resp.body.results.items, TopResults) IN
       UNION {{top[k].citation.items[n] : n \in DOMAIN top[k].citation.items} :
                k \in {k \in DOMAIN top : /\ top[k].kind = "object"
                                          /\ top[k].citation.kind = "list"}}
  ELSE {}

CiteDistance(cite, vol, page) ==
  _edit_distance(cite.volume, vol) + _edit_distance(cite.page, page)

\* the non-zero distances of the candidates in the citation's reporter
CandidateDistances(cite, resp) ==
  {CiteDistance(cite, CITE_STRING_RE(c.toks).vol, CITE_STRING_RE(c.toks).page) :
     c \in {c \in CandidateStrings(resp) :
              /\ c.kind = "string"
              /\ CITE_STRING_RE(c.toks).ok
              /\ _normalize_reporter(CITE_STRING_RE(c.toks).rptr)
                   = _normalize_reporter(cite.reporter)}} \ {0}

C17_WitnessIdentical ==
  /\ vpc = "returned" /\ vstart = "pending"
  /\ CandidateStrings(vsresp) = {ProviderCite(vcite.volume, vcite.reporter, vcite.page)}
  /\ vcite.suggestion = <<>>


\* ---------------------------------------------------------------------
Analysed == spc \in {"analysed", "shown", "done"}

\* the citations that get an item
Flagged(c) ==
  \/ c.status = "not_found"
  \/ c.status = "mismatch" /\ c.suggestion # <<>>

\* the similarity test on a citation and its suggestion: same reporter,
\* combined edit distance of volume and page at most 3
SimilarToSuggestion(c) ==
  /\ _normalize_reporter(c.suggestion[2].w) = _normalize_reporter(c.reporter)
  /\ CiteDistance(c, c.suggestion[1].d, c.suggestion[3].d) <= 3

ExpectedCitationItem(c) ==
  IF c.status = "not_found"
  THEN IF c.suggestion # <<>> THEN Item("human_error", -10) ELSE Item("ai_indicator", 0)
  ELSE IF SimilarToSuggestion(c) THEN Item("human_error", -5)
  ELSE Item("ai_indicator", 3)

\* C18: compute_human_error_adjustment emits, in list order, exactly one
\* item per not_found citation and per mismatch citation with a suggestion,
\* and none for the other citations: -10 human_error for not_found with a
\* suggestion, 0 ai_indicator for not_found without, and for mismatch with
\* a suggestion -5 human_error when similar, +3 ai_indicator when not
C18_OneItemPerFlaggedCitation ==
  Analysed =>
    LET flagged == SelectSeq(GivenItems, Flagged) IN
    /\ Len(shuman.items) >= Len(flagged)
    /\ squotes = <<>> => Len(shuman.items) = Len(flagged)
    /\ \A k \in DOMAIN flagged : shuman.items[k] = ExpectedCitationItem(flagged[k])

\* the scenario: one not_found citation, 123 So. 2d 456, whose closest
\* provider match is 213 So. 2d 456, has that suggestion and gives -10
C18_Witness ==
  /\ Analysed
  /\ scitations = Listed(<<NotFoundTypo>>) /\ squotes = <<>>
  /\ NotFoundTypo.suggestion = FormatCite(<<2, 1, 3>>, "So. 2d", D456)
  /\ shuman.items = <<Item("human_error", -10)>>
  /\ shuman.adjustment = -10


\* ---------------------------------------------------------------------
\* the similarity test on a quote: the citation found has the reporter of
\* the attributed citation and is within a combined edit distance of 3
QuoteIsSimilar(q) ==
  /\ q.found_cite # <<>>
  /\ _normalize_reporter(q.found_cite[2].w) = _normalize_reporter(q.cite_label[2].w)
  /\ _edit_distance(q.cite_label[1].d, q.found_cite[1].d)
       + _edit_distance(q.cite_label[3].d, q.found_cite[3].d) <= 3

HasQuoteItem(q) == q.status \in {"found_elsewhere", "not_found"}

ExpectedQuoteItem(q) ==
  IF q.status = "found_elsewhere" /\ QuoteIsSimilar(q)
  THEN Item("human_error", -5)
  ELSE Item("ai_indicator", 5)

\* C19: after the items of the citations, compute_human_error_adjustment
\* emits per quote, in list order: for found_elsewhere -5 human_error when
\* the attributed and the found citation are similar and +5 ai_indicator
\* otherwise, also when no found citation was recorded; for not_found +5
\* ai_indicator; for verified or pending nothing.  adjustment is the sum of
\* the points of all items, of citations and quotes together
C19_QuoteItemsAndSum ==
  Analysed =>
    LET flagged == SelectSeq(GivenItems, Flagged)
        quoted == SelectSeq(squotes, HasQuoteItem)
    IN  /\ Len(shuman.items) = Len(flagged) + Len(quoted)
        /\ \A k \in DOMAIN quoted :
             shuman.items[Len(flagged) + k] = ExpectedQuoteItem(quoted[k])
        /\ shuman.adjustment
             = SumSeq([k \in DOMAIN flagged |-> ExpectedCitationItem(flagged[k]).points])
               + SumSeq([k \in DOMAIN quoted |-> ExpectedQuoteItem(quoted[k]).points])

\* a mismatch citation with a distant suggestion (+3), a quote found
\* elsewhere with no citation recorded (+5) and a pending quote (nothing)
C19_Witness ==
  /\ Analysed
  /\ scitations = Listed(<<MismatchFar>>)
  /\ squotes = <<ScoreQuote("found_elsewhere", <<>>), ScoreQuote("pending", <<>>)>>
  /\ shuman.items = <<Item("ai_indicator", 3), Item("ai_indicator", 5)>>
  /\ shuman.adjustment = 8


\* ---------------------------------------------------------------------
\* C20: verify_quote never raises: a failed or erroring search counts as
\* no result, and the quote ends verified, found_elsewhere or not_found,
\* so no stream stops in its quote phase
C20_QuoteSearchNeverRaises ==
  \A s \in Streams : ~(streams[s].pc = "crashed" /\ streams[s].qi >= 1)


(***************************************************************************)
(* Claims about extract_citations and extract_quotes (SpecExtract).        *)
(***************************************************************************)
\* C21: a quote of 40 characters or more whose following 80 characters hold
\* an Id. or Ibid. back-reference is attributed to the last citation
\* attributed so far, and leaves that value unchanged
C21_BackReferenceToLastAttributed ==
  [][(epc = "quoting" /\ ek' > ek) =>
       LET k == ek' - 1 IN
       (etext[k].length >= MinQuoteLength /\ etext[k].follow \in {"id", "ibid"}) =>
         /\ elast' = elast
         /\ Len(equotes') = Len(equotes) + 1
         /\ equotes'[Len(equotes')].quote.cite_index = elast]_vars


\* ---------------------------------------------------------------------
Cited == epc \in {"cited", "quoting", "done", "again"}

CiteKey(c) == <<c.volume, c.reporter, c.page>>

KeysOf(ms) == {Key(ms[n]) : n \in DOMAIN ms}

\* the first match of a sequence of matches that has the key
FirstAt(ms, key) ==
  CHOOSE n \in DOMAIN ms : Key(ms[n]) = key /\ \A m \in 1..(n - 1) : Key(ms[m]) # key

\* cites holds, for every key of the matches ms, the first match of ms with
\* that key, and in the order of these first matches
RetainedFrom(ms, cites) ==
  /\ Len(cites) = Cardinality(KeysOf(ms))
  /\ \A i \in DOMAIN cites :
       /\ CiteKey(cites[i]) \in KeysOf(ms)
       /\ LET m == ms[FirstAt(ms, CiteKey(cites[i]))] IN
          cites[i] = Citation(m.parties, m.vol, m.rptr, m.page, m.court)
  /\ \A i, j \in DOMAIN cites :
       i < j => FirstAt(ms, CiteKey(cites[i])) < FirstAt(ms, CiteKey(cites[j]))

NoSharedKey(cites) ==
  \A i, j \in DOMAIN cites : i # j => CiteKey(cites[i]) # CiteKey(cites[j])

\* C22 as claimed, first-encountered read as first in the text: no two
\* returned citations share (volume, reporter, page), and of the matches of
\* both grammars that share a key the first one of the text is retained,
\* the retained ones in the order of the text
C22_FirstInTextRetained ==
  Cited =>
    /\ NoSharedKey(efirst)
    /\ RetainedFrom(SelectSeq(etext, LAMBDA el : el.kind = "cite"), efirst)

\* C22: no two returned citations share (volume, reporter, page); of the
\* matches that share a key the first one met by the extraction is
\* retained, and the retained ones keep the order in which they were met,
\* where the extraction meets every FULL_CITE_RE match of the text, in
\* reading order, before any IN_RE_CITE_RE match
C22_FirstEncounteredRetained ==
  Cited =>
    /\ NoSharedKey(efirst)
    /\ RetainedFrom(Finditer(etext, "full") \o Finditer(etext, "in_re"), efirst)

\* an In re span precedes in the text a v. span with the same key, and the
\* v. span is the one retained
C22_Witness ==
  /\ Cited
  /\ \E a, b \in DOMAIN etext :
       /\ a < b
       /\ etext[a].kind = "cite" /\ etext[a].grammar = "in_re"
       /\ etext[b].kind = "cite" /\ etext[b].grammar = "full"
       /\ Key(etext[a]) = Key(etext[b])
       /\ \E i \in DOMAIN efirst : efirst[i].parties = etext[b].parties


\* ---------------------------------------------------------------------
\* a Citation as extract_citations makes it: pending, nothing verified
Unverified(c) ==
  /\ c.status = "pending"
  /\ c.matched_case_name = EmptyStr
  /\ c.detail = <<>>
  /\ c.suggestion = <<>>

C30_QuotesAreResolvable ==
  \A n \in DOMAIN equotes :
    LET q == equotes[n].quote IN
    /\ 0 <= q.cite_index /\ q.cite_index < Len(ecites)
    /\ q.cite_label = <<DigitsTok(ecites[q.cite_index + 1].volume),
                        WordTok(ecites[q.cite_index + 1].reporter),
                        DigitsTok(ecites[q.cite_index + 1].page)>>
    /\ q.status = "pending"
    /\ equotes[n].text_len <= 500

\* extract_quotes has returned a quote cut to 500 characters and a quote
\* attributed to the second citation of the list
C30_Witness ==
  /\ epc = "done"
  /\ \E n \in DOMAIN equotes : equotes[n].text_len = 500
  /\ \E n \in DOMAIN equotes : equotes[n].quote.cite_index = 1


\* ---------------------------------------------------------------------
\* C24: _names_match is true exactly when one of the two normalized word
\* sets is empty or the overlap is at least 40% of the cited words or at
\* least 40% of the provider's words (5*|overlap| >= 2*|set|), and gives
\* the same result with its two arguments swapped.  Read on the status a
\* first verify_citation sets after comparing the cited parties with a
\* non-empty provider name.
Compared ==
  /\ vstart = "pending"
  /\ vcite.status \in {"verified", "mismatch"}
  /\ vcite.matched_case_name.kind = "string"
  /\ vcite.matched_case_name.words # <<>>

C24_NamesMatchEitherDirection ==
  Compared =>
    LET cited == normalize(vcite.parties)
        db == normalize(vcite.matched_case_name.words)
        overlap == Cardinality(cited \cap db)
    IN  /\ (vcite.status = "verified") <=>
              \/ cited = {} \/ db = {}
              \/ 5 * overlap >= 2 * Cardinality(cited)
              \/ 5 * overlap >= 2 * Cardinality(db)
        /\ _names_match(vcite.parties, vcite.matched_case_name.words)
             = _names_match(vcite.matched_case_name.words, vcite.parties)

\* a three-word citation verified by a two-word provider name sharing one
\* word: a third of the cited words, half of the provider's
C24_Witness ==
  /\ Compared
  /\ vcite.status = "verified"
  /\ vcite.parties = SmithJonesAcme
  /\ vcite.matched_case_name.words = SmithDoe

\* the same citation against a three-word name sharing one word: a third
\* of either set, a mismatch
C24_WitnessBelow ==
  /\ Compared
  /\ vcite.status = "mismatch"
  /\ vcite.parties = SmithJonesAcme
  /\ vcite.matched_case_name.words = SmithDoeRoe


(***************************************************************************)
(* Claims about the out-of-jurisdiction criterion (SpecScore)              *)
(***************************************************************************)
\* the court a court string names: a state's court (by the state's code), a
\* federal court below the U.S. Supreme Court, or no known court
NamedCourt(court) ==
  CASE court \in {"Fla", "Fla. 3d DCA"} -> [kind |-> "state", state |-> "fl"]
    [] court = "N.Y" -> [kind |-> "state", state |-> "ny"]
    [] court = "Ga" -> [kind |-> "state", state |-> "ga"]
    [] court = "Ala" -> [kind |-> "state", state |-> "al"]
    [] court \in {"11th Cir", "D.C. Cir", "2d Cir", "S.D. Fla", "D. Mass"}
         -> [kind |-> "federal", state |-> ""]
    [] OTHER -> [kind |-> "unknown", state |-> ""]

\* the state of the document's jurisdiction: detected from the header, or
\* Florida when nothing is detected
JurisdictionState ==
  IF _detect_jurisdiction(stext).type = "" THEN "fl"
  ELSE _detect_jurisdiction(stext).state

\* the points of the out-of-jurisdiction criterion in the computed score
JurisdictionPoints == sscore.criteria[6].points

\* the analysis of one citation in a document of a state's jurisdiction
OneCitationScored ==
  /\ spc # "start"
  /\ ~scitations.is_none
  /\ Len(scitations.items) = 1
  /\ _detect_jurisdiction(stext).type \in {"", "state"}

\* C25: a citation of the jurisdiction's own state courts or of a court
\* string naming no known court is never out-of-jurisdiction, one of any
\* federal court below the U.S. Supreme Court is out exactly when
\* allow_federal is false, and one of another state's court is out exactly
\* when allow_other_state is false.  Read on a one-citation analysis, where
\* the criterion gives 8 points exactly when the citation is out.
C25_CourtsClassifiedAsStated ==
  OneCitationScored =>
    LET named == NamedCourt(scitations.items[1].court)
        out == CASE named.kind = "federal" -> ~sflags.allow_federal
                 [] named.kind = "state" ->
                      named.state # JurisdictionState /\ ~sflags.allow_other_state
                 [] OTHER -> FALSE
    IN  JurisdictionPoints = IF out THEN 8 ELSE 0


\* ---------------------------------------------------------------------
\* the scored citations, and how many of them the classifier puts out of
\* the document's jurisdiction under the flags given
ScoredItems == IF scitations.is_none THEN <<>> ELSE scitations.items

OutShare ==
  LET detected == _detect_jurisdiction(stext)
      jurisdiction == IF detected.type = "" THEN Jurisdiction("state", "11", "fl")
                      ELSE detected
  IN  Cardinality({i \in DOMAIN ScoredItems :
        _citation_is_out_of_jurisdiction(ScoredItems[i].court, jurisdiction,
                                         sflags.allow_other_state, sflags.allow_federal)})

\* C26: the criterion gives 0, 3, 5, 6, 8 points when the citations
\* classified out-of-jurisdiction are under 20%, under 40%, under 60%,
\* under 80%, and 80% or more of all citations; 0 points when there are no
\* citations, and 0 points whenever both allow flags are set
C26_PointsByOutShare ==
  spc # "start" =>
    LET total == Len(ScoredItems) IN
    JurisdictionPoints =
      IF sflags.allow_other_state /\ sflags.allow_federal THEN 0
      ELSE IF total = 0 THEN 0
      ELSE IF 100 * OutShare < 20 * total THEN 0
      ELSE IF 100 * OutShare < 40 * total THEN 3
      ELSE IF 100 * OutShare < 60 * total THEN 5
      ELSE IF 100 * OutShare < 80 * total THEN 6
      ELSE 8

\* one citation of five is out: exactly 20%, the 3-point band
C26_Witness ==
  /\ spc # "start"
  /\ Len(ScoredItems) = 5 /\ OutShare = 1
  /\ JurisdictionPoints = 3

\* three citations of five are out: exactly 60%, the 6-point band
C26_WitnessSix ==
  /\ spc # "start"
  /\ Len(ScoredItems) = 5 /\ OutShare = 3
  /\ JurisdictionPoints = 6

\* four citations of another state's court with both flags set: no points
C26_WitnessSkipped ==
  /\ spc # "start"
  /\ sflags.allow_other_state /\ sflags.allow_federal
  /\ Len(ScoredItems) = 4 /\ scitations.items = ShareList(4, 4)
  /\ JurisdictionPoints = 0


(***************************************************************************)
(* Further claims about the server (Spec)                                  *)
(***************************************************************************)
\* C27: after any sequence of /verify requests on a job, repeated or
\* concurrent ones included, job["results"] holds each citation of the job
\* at most once and never more entries than job["citations"]
C27_ResultsHoldEachCitationOnce ==
  \A j \in jobs :
    LET results == store[j].results IN
    /\ Len(results) <= Len(store[j].citations)
    /\ \A a, b \in DOMAIN results : a # b => results[a] # results[b]


(***************************************************************************)
(* Further claims about verify_citation (SpecVerify)                       *)
(***************************************************************************)
\* C28: whenever verify_citation has returned, on a first or on a repeated
\* call for the same Citation, a citation with a suggestion has status
\* not_found or mismatch: no suggestion of an earlier verification
\* survives a later one that classifies the citation differently
C28_SuggestionOnlyWhenFlagged ==
  (vpc = "returned" /\ vcite.suggestion # <<>>) =>
    vcite.status \in {"not_found", "mismatch"}

\* the same for a citation verified once
C28_FirstCallSuggestionOnlyWhenFlagged ==
  (vpc = "returned" /\ vcalls = 1 /\ vcite.suggestion # <<>>) =>
    vcite.status \in {"not_found", "mismatch"}


\* ---------------------------------------------------------------------
\* C29: a suggestion set by verify_citation always passes
\* _citations_are_similar against the citation as given, so a mismatch
\* citation with a suggestion gets the human_error item of -5 and never
\* the ai_indicator item of +3
C29_SuggestionIsSimilar ==
  vcite.suggestion # <<>> =>
    /\ _citations_are_similar(FormatCite(vcite.volume, vcite.reporter, vcite.page),
                              vcite.suggestion)
    /\ vcite.status = "mismatch" => CitationItems(vcite) = <<Item("human_error", -5)>>

\* a first call has returned a mismatch with the transposed citation as
\* its suggestion
C29_Witness ==
  /\ vpc = "returned" /\ vcalls = 1
  /\ vcite.status = "mismatch"
  /\ vcite.suggestion = FormatCite(<<2, 1, 3>>, "So. 2d", D456)

====
